---- MODULE Spec2Model ----
(***************************************************************************)
(* tito builder hierarchy (src/src/tito/builder.py): the staged pipeline   *)
(* of Builder.run() for the four builder variants, with the release        *)
(* targets (CVS, Koji) and the file sync into a build-system checkout.     *)
(*                                                                         *)
(* Paths, file names, commands and configuration values are strings, and   *)
(* the Python string operations the code uses on them are computed.        *)
(***************************************************************************)
EXTENDS Integers, Sequences, FiniteSets, TLC

VARIABLES
    self,     \* the builder object's fields
    world,    \* what the process acts on: file system, commands issued, exit
    config,   \* the merged configuration (ConfigParser): section -> option -> value
    options,  \* the caller's options
    env,      \* what the outside holds: the project tree, the CVS module, the user
    pc,       \* position in run()
    ret       \* the call of _sync_files under study: its arguments and what it returned

vars == <<self, world, config, options, env, pc, ret>>

None == "<None>"

\* The elements of a finite set in some fixed order (os.listdir gives an
\* arbitrary one).
RECURSIVE SetToSeq(_)
SetToSeq(S) ==
    IF S = {} THEN <<>>
    ELSE LET x == CHOOSE y \in S : TRUE IN <<x>> \o SetToSeq(S \ {x})

\* A function given as a set of <<key, value>> pairs.
Map(pairs) ==
    [k \in {p[1] : p \in pairs} |-> (CHOOSE p \in pairs : p[1] = k)[2]]

(***************************************************************************)
(* Bounds                                                                  *)
(***************************************************************************)
\* Largest number of Koji tags in autobuild_tags.
MaxTags == 2
\* Largest number of files besides the descriptor at the top of the exported tree
\* and in a checked-out branch, in the file-sync specification.
MaxFiles == 2

(***************************************************************************)
(* Python string and path operations                                       *)
(***************************************************************************)
startswith(s, prefix) ==
    Len(s) >= Len(prefix) /\ SubSeq(s, 1, Len(prefix)) = prefix

endswith(s, suffix) ==
    Len(s) >= Len(suffix) /\ SubSeq(s, Len(s) - Len(suffix) + 1, Len(s)) = suffix

\* Index of the first occurrence of the character c in s, 0 when absent.
RECURSIVE find_from(_, _, _)
find_from(s, c, i) ==
    IF i > Len(s) THEN 0
    ELSE IF SubSeq(s, i, i) = c THEN i
    ELSE find_from(s, c, i + 1)

find(s, c) == find_from(s, c, 1)

\* Index of the last occurrence of the character c in s, 0 when absent.
RECURSIVE rfind_from(_, _, _)
rfind_from(s, c, i) ==
    IF i = 0 THEN 0
    ELSE IF SubSeq(s, i, i) = c THEN i
    ELSE rfind_from(s, c, i - 1)

rfind(s, c) == rfind_from(s, c, Len(s))

\* str.split(sep) for a one-character separator: every separator cuts, so
\* "a  b" gives <<"a", "", "b">> and "" gives <<"">>.
RECURSIVE split(_, _)
split(s, sep) ==
    LET i == find(s, sep)
    IN  IF i = 0 THEN <<s>>
        ELSE <<SubSeq(s, 1, i - 1)>> \o split(SubSeq(s, i + 1, Len(s)), sep)

\* str.strip(): blanks removed at both ends.
RECURSIVE strip(_)
strip(s) ==
    IF Len(s) > 0 /\ SubSeq(s, 1, 1) = " " THEN strip(SubSeq(s, 2, Len(s)))
    ELSE IF Len(s) > 0 /\ SubSeq(s, Len(s), Len(s)) = " " THEN strip(SubSeq(s, 1, Len(s) - 1))
    ELSE s

\* sep.join(list)
RECURSIVE join(_, _)
join(sep, list) ==
    IF list = <<>> THEN ""
    ELSE IF Len(list) = 1 THEN list[1]
    ELSE list[1] \o sep \o join(sep, Tail(list))

\* os.path.join(a, b)
path_join(a, b) == a \o "/" \o b

\* os.path.basename(p)
basename(p) == SubSeq(p, rfind(p, "/") + 1, Len(p))

\* os.path.dirname(p)
dirname(p) == SubSeq(p, 1, rfind(p, "/") - 1)

\* x in list
contains(list, x) == \E i \in 1..Len(list) : list[i] = x

(***************************************************************************)
(* The file system: a function from the paths that exist to what they hold *)
(* (Dir for a directory, for a file its lines).                            *)
(***************************************************************************)
Dir == <<"<dir>">>

exists(fs, p) == p \in DOMAIN fs

isdir(fs, p) == exists(fs, p) /\ fs[p] = Dir

\* os.listdir(d): the names of the entries directly in d.
listdir(fs, d) == {basename(p) : p \in {q \in DOMAIN fs : dirname(q) = d}}

\* The file system with p holding content (created or overwritten).
write(fs, p, content) ==
    [q \in DOMAIN fs \cup {p} |-> IF q = p THEN content ELSE fs[q]]

\* mkdir -p for each of dirs.
mkdir_p(fs, dirs) ==
    [q \in DOMAIN fs \cup dirs |-> IF q \in DOMAIN fs THEN fs[q] ELSE Dir]

\* cp -n src dst: a file that is already at dst is kept.
cp_keeping(fs, src, dst) ==
    IF isdir(fs, dst) THEN write(fs, path_join(dst, basename(src)), fs[src])
    ELSE IF dst \in DOMAIN fs THEN fs
    ELSE write(fs, dst, fs[src])

\* cp src dst, dst a file path or an existing directory.
cp(fs, src, dst) ==
    IF isdir(fs, dst) THEN write(fs, path_join(dst, basename(src)), fs[src])
    ELSE write(fs, dst, fs[src])

\* rm -rf d
rm_rf(fs, d) ==
    [q \in {p \in DOMAIN fs : p # d /\ ~startswith(p, d \o "/")} |-> fs[q]]

(***************************************************************************)
(* The project being built, and where it is built                          *)
(***************************************************************************)
project_name == "pkg"
build_version == "1.0-1"
build_tag == "pkg-1.0-1"
git_commit_id == "c0ffee12"
project_name_and_sha1 == project_name \o "-" \o git_commit_id

DEFAULT_KOJI_OPTS == "build --nowait"
DEFAULT_CVS_BUILD_DIR == "cvswork"
PROTECTED_BUILD_SYS_FILES ==
    {"branch", "CVS", ".cvsignore", "Makefile", "sources", ".git", ".gitignore"}

rpmbuild_basedir == "/b"
rpmbuild_dir == path_join(rpmbuild_basedir, "rpmbuild-" \o project_name_and_sha1)
rpmbuild_sourcedir == path_join(rpmbuild_dir, "SOURCES")
rpmbuild_builddir == path_join(rpmbuild_dir, "BUILD")
cvs_workdir == path_join(rpmbuild_basedir, DEFAULT_CVS_BUILD_DIR)
cvs_package_workdir == path_join(cvs_workdir, project_name)

Variants == {"Builder", "NoTgzBuilder", "CvsBuilder", "UpstreamBuilder"}

(***************************************************************************)
(* The configuration (ConfigParser)                                        *)
(***************************************************************************)
has_section(section) == section \in DOMAIN config

has_option(section, option) ==
    has_section(section) /\ option \in DOMAIN config[section]

\* config.get(section, option); callers test has_option first where the code does.
get(section, option) == config[section][option]

(***************************************************************************)
(* Commands and process exit.  b is the pair [self, world] a method works  *)
(* on; a method of a process that has exited does nothing.                 *)
(***************************************************************************)
Exited(b) == b.world.exit # None

\* Op applied to the value of v.
Do(v, Op(_)) == CHOOSE r \in {Op(y) : y \in {v}} : TRUE

\* The statements Op after the statements that gave b, unless the process exited.
Then(v, Op(_)) == Do(v, LAMBDA b : IF Exited(b) THEN b ELSE Op(b))

\* The status the shell gives for cmd: non-zero for the commands that fail in
\* this run.
status_of(cmd) ==
    IF env.failing # None /\ startswith(cmd, env.failing) THEN 1 ELSE 0

\* The command handed to the shell is recorded in the order issued, with the
\* status and the output it gave.
issue_giving(b, cmd, status, out) ==
    [b EXCEPT !.world.trace =
        Append(@, [cmd |-> cmd, ran |-> TRUE, status |-> status, out |-> out])]

issue(b, cmd) == issue_giving(b, cmd, status_of(cmd), "")

\* commands.getoutput(cmd), commands.getstatusoutput(cmd): the command runs,
\* whatever its status.
getoutput(b, cmd) == IF Exited(b) THEN b ELSE issue(b, cmd)

\* commands.getstatusoutput(cmd) of a command the caller reads the status of.
getstatusoutput(b, cmd, status) ==
    IF Exited(b) THEN b ELSE issue_giving(b, cmd, status, "")

\* tito.common.error_out(msg): print the message, sys.exit(1).
error_out(b) == IF Exited(b) THEN b ELSE [b EXCEPT !.world.exit = "1"]

\* An uncaught Python exception ends the process with a traceback.
raise(b) == IF Exited(b) THEN b ELSE [b EXCEPT !.world.exit = "exception"]

\* tito.common.run_command(cmd) of a command printing out: an exception when the
\* status is not zero.
run_command_giving(b, cmd, out) ==
    IF Exited(b) THEN b
    ELSE IF status_of(cmd) > 0 THEN raise(issue_giving(b, cmd, status_of(cmd), out))
    ELSE issue_giving(b, cmd, 0, out)

\* tito.common.run_command(cmd)
run_command(b, cmd) == run_command_giving(b, cmd, "")

print_dry_run_warning(b, command_that_would_be_run_otherwise) ==
    IF Exited(b) THEN b
    ELSE [b EXCEPT !.world.trace =
            Append(@, [cmd |-> command_that_would_be_run_otherwise, ran |-> FALSE,
                       status |-> 0, out |-> ""])]

\* The commands issued, and the commands only logged by a dry run.
Ran(w) == {i \in 1..Len(w.trace) : w.trace[i].ran}
Logged(w) == {i \in 1..Len(w.trace) : ~w.trace[i].ran}
RanCmd(w, prefix) == {i \in Ran(w) : startswith(w.trace[i].cmd, prefix)}
LoggedCmd(w, prefix) == {i \in Logged(w) : startswith(w.trace[i].cmd, prefix)}

_create_build_dirs(b) ==
    IF Exited(b) THEN b
    ELSE [getoutput(b, "mkdir -p " \o rpmbuild_basedir \o " " \o rpmbuild_dir \o " "
                       \o rpmbuild_sourcedir \o " " \o rpmbuild_builddir)
            EXCEPT !.world.fs =
            mkdir_p(@, {rpmbuild_basedir, rpmbuild_dir, rpmbuild_sourcedir,
                        rpmbuild_builddir})]

\* The display version that is the whole version, release included.
_get_display_version_whole(version, test, latest_commit, commit_count) ==
    IF test THEN "git-" \o commit_count \o "." \o SubSeq(latest_commit, 1, 7)
    ELSE version

\* _get_display_version for self.build_version = version and self.test = test,
\* where get_latest_commit and get_commit_count give the commit and the count.
_get_display_version(version, test, latest_commit, commit_count) ==
    IF test THEN "git-" \o commit_count \o "." \o SubSeq(latest_commit, 1, 7)
    ELSE split(version, "-")[1]

_get_tgz_name_and_ver(display_version) == project_name \o "-" \o display_version

\* tito.common.create_tgz: git archive of the project at commit, written to dest.
create_tgz(b, commit, dest) ==
    IF Exited(b) THEN b
    ELSE [run_command(b, "git archive " \o commit \o " > " \o dest)
            EXCEPT !.world.fs = write(@, dest, <<"archive of " \o commit>>)]

\* tar xzf of the exported archive: the project's tree appears under into.
untar(fs, tree, into) ==
    [q \in DOMAIN fs \cup {into} \cup {path_join(into, n) : n \in DOMAIN tree} |->
        IF dirname(q) = into /\ basename(q) \in DOMAIN tree THEN tree[basename(q)]
        ELSE IF q = into THEN Dir ELSE fs[q]]

\* tito.common.find_spec_file(in_dir): the name of the .spec file in the directory.
find_spec_file(fs, in_dir) ==
    CHOOSE n \in listdir(fs, in_dir) : endswith(n, ".spec")

_setup_sources(b) ==
    Then(_create_build_dirs(b), LAMBDA b1 :
    Then(create_tgz(b1, git_commit_id, path_join(rpmbuild_sourcedir, b1.self.tgz_filename)),
         LAMBDA b2 :
    Then(run_command(b2, "cd " \o rpmbuild_sourcedir \o "/ && tar xzf "
                         \o b2.self.tgz_filename), LAMBDA b3 :
    Do(untar(b3.world.fs, env.tree, b3.self.rpmbuild_gitcopy), LAMBDA fs :
    Do(find_spec_file(fs, b3.self.rpmbuild_gitcopy), LAMBDA name :
        [b3 EXCEPT !.world.fs = fs,
                   !.self.spec_file_name = name,
                   !.self.spec_file = path_join(b3.self.rpmbuild_gitcopy, name)])))))

Builder_tgz(b) ==
    Then(_setup_sources(b), LAMBDA b1 :
    Then(run_command(b1, "cp " \o rpmbuild_sourcedir \o "/" \o b1.self.tgz_filename
                         \o " " \o rpmbuild_basedir \o "/"), LAMBDA b2 :
    Do(path_join(rpmbuild_basedir, b2.self.tgz_filename), LAMBDA full_path :
        [b2 EXCEPT !.world.fs = cp(@, path_join(rpmbuild_sourcedir, b2.self.tgz_filename),
                                   rpmbuild_basedir),
                   !.self.ran_tgz = TRUE,
                   !.self.sources = Append(@, full_path),
                   !.self.artifacts = Append(@, full_path)])))

\* Python truth value of an option that is None, or a string.
truthy(x) == x # None /\ x # ""

\* int(digits) and str(n) in decimal.
Digits == "0123456789"

isdigit(c) == find(Digits, c) > 0

RECURSIVE int(_)
int(s) ==
    IF s = "" THEN 0
    ELSE int(SubSeq(s, 1, Len(s) - 1)) * 10 + (find(Digits, SubSeq(s, Len(s), Len(s))) - 1)

RECURSIVE str(_)
str(n) ==
    IF n < 10 THEN SubSeq(Digits, n + 1, n + 1)
    ELSE str(n \div 10) \o SubSeq(Digits, (n % 10) + 1, (n % 10) + 1)

\* sub in s, for strings.
instr(sub, s) ==
    \E i \in 1..(Len(s) - Len(sub) + 1) : SubSeq(s, i, i + Len(sub) - 1) = sub

Builder__setup_test_specfile(b) ==
    IF Exited(b) \/ ~(b.self.test /\ ~b.self.ran_setup_test_specfile) THEN b
    ELSE Then(run_command(b, "test-setup-specfile.pl " \o b.self.spec_file \o " "
                             \o SubSeq(git_commit_id, 1, 7) \o " " \o b.self.commit_count
                             \o " " \o project_name \o "-" \o b.self.display_version \o " "
                             \o b.self.tgz_filename),
              LAMBDA b1 : [b1 EXCEPT !.self.ran_setup_test_specfile = TRUE])

NoTgzBuilder__setup_test_specfile(b) ==
    IF Exited(b) \/ ~b.self.test THEN b
    ELSE run_command(b, "test-setup-specfile.pl " \o b.self.spec_file \o " "
                        \o SubSeq(git_commit_id, 1, 7) \o " " \o b.self.commit_count)

_setup_test_specfile(b) ==
    IF b.self.variant = "Builder" THEN Builder__setup_test_specfile(b)
    ELSE NoTgzBuilder__setup_test_specfile(b)

\* The suffixes NoTgzBuilder.tgz adopts as sources.
source_suffixes == <<".tar.gz", ".tar", ".zip", ".jar", ".gem">>

\* The scan taking a suffix anywhere in the file name.
RECURSIVE scan_sources_anywhere(_, _)
scan_sources_anywhere(filenames, gitcopy) ==
    IF filenames = <<>> THEN <<>>
    ELSE [i \in 1..Len(SelectSeq(source_suffixes,
                                 LAMBDA suffix : instr(suffix, Head(filenames)))) |->
             path_join(gitcopy, Head(filenames))]
         \o scan_sources_anywhere(Tail(filenames), gitcopy)

\* The sources found by the scan of NoTgzBuilder.tgz: one entry for each file
\* name and each suffix it ends with, in listing order.
RECURSIVE scan_sources(_, _)
scan_sources(filenames, gitcopy) ==
    IF filenames = <<>> THEN <<>>
    ELSE [i \in 1..Len(SelectSeq(source_suffixes,
                                 LAMBDA suffix : endswith(Head(filenames), suffix))) |->
             path_join(gitcopy, Head(filenames))]
         \o scan_sources(Tail(filenames), gitcopy)

NoTgzBuilder_tgz(b) ==
    Then(_setup_sources(b), LAMBDA b1 :
        [b1 EXCEPT !.self.ran_tgz = TRUE,
                   !.self.sources = @ \o scan_sources(
                       SetToSeq(listdir(b1.world.fs, b1.self.rpmbuild_gitcopy)),
                       b1.self.rpmbuild_gitcopy)])

\* The lines of the file at path.
readlines(fs, path) == fs[path]

\* The number of digits s begins with.
RECURSIVE leading_digits(_)
leading_digits(s) ==
    IF s # "" /\ isdigit(SubSeq(s, 1, 1)) THEN 1 + leading_digits(SubSeq(s, 2, Len(s)))
    ELSE 0

\* The digits N of a line "<word>N:..." matching ^<word>(\d+): , None otherwise.
re_match(word, line) ==
    IF ~startswith(line, word) THEN None
    ELSE Do(SubSeq(line, Len(word) + 1, Len(line)), LAMBDA rest :
         Do(leading_digits(rest), LAMBDA k :
            IF k >= 1 /\ k < Len(rest) /\ SubSeq(rest, k + 1, k + 1) = ":"
            THEN SubSeq(rest, 1, k) ELSE None))

\* The loop with the apply index at the marker line itself.
RECURSIVE _patch_upstream_scan_at_marker(_, _)
_patch_upstream_scan_at_marker(lines, n) ==
    IF n = 0
    THEN [patch_number |-> 0, patch_insert_index |-> 0, patch_apply_index |-> 0]
    ELSE Do(_patch_upstream_scan_at_marker(lines, n - 1), LAMBDA before :
         Do(re_match("Source", lines[n]), LAMBDA source :
         Do(re_match("Patch", lines[n]), LAMBDA patch :
            [patch_number |->
                 IF patch # None THEN int(patch) + 1 ELSE before.patch_number,
             patch_insert_index |->
                 IF source # None \/ patch # None THEN (n - 1) + 1
                 ELSE before.patch_insert_index,
             patch_apply_index |->
                 IF startswith(lines[n], "%prep") THEN n - 1
                 ELSE IF startswith(lines[n], "%setup") THEN n - 1
                 ELSE before.patch_apply_index])))

\* The loop of _patch_upstream over lines[1..n]: the numbers it holds after line n.
\* array_index counts from 0 in the code, and line n has array_index n - 1.
RECURSIVE _patch_upstream_scan(_, _)
_patch_upstream_scan(lines, n) ==
    IF n = 0
    THEN [patch_number |-> 0, patch_insert_index |-> 0, patch_apply_index |-> 0]
    ELSE Do(_patch_upstream_scan(lines, n - 1), LAMBDA before :
         Do(re_match("Source", lines[n]), LAMBDA source :
         Do(re_match("Patch", lines[n]), LAMBDA patch :
            [patch_number |->
                 IF patch # None THEN int(patch) + 1 ELSE before.patch_number,
             patch_insert_index |->
                 IF source # None \/ patch # None THEN (n - 1) + 1
                 ELSE before.patch_insert_index,
             patch_apply_index |->
                 IF startswith(lines[n], "%prep") THEN (n - 1) + 2
                 ELSE IF startswith(lines[n], "%setup") THEN (n - 1) + 2
                 ELSE before.patch_apply_index])))

\* _patch_upstream failing only when both indexes are 0.
_patch_upstream_needing_one(b) ==
    Do(readlines(b.world.fs, b.self.spec_file), LAMBDA lines :
    Do(_patch_upstream_scan(lines, Len(lines)), LAMBDA r :
        [b |-> IF r.patch_insert_index = 0 /\ r.patch_apply_index = 0
               THEN error_out(b) ELSE b,
         patch_number |-> r.patch_number,
         patch_insert_index |-> r.patch_insert_index,
         patch_apply_index |-> r.patch_apply_index,
         lines |-> lines]))

\* _patch_upstream: [b, patch_number, patch_insert_index, patch_apply_index, lines]
_patch_upstream(b) ==
    Do(readlines(b.world.fs, b.self.spec_file), LAMBDA lines :
    Do(_patch_upstream_scan(lines, Len(lines)), LAMBDA r :
        [b |-> IF r.patch_insert_index = 0 \/ r.patch_apply_index = 0
               THEN error_out(b) ELSE b,
         patch_number |-> r.patch_number,
         patch_insert_index |-> r.patch_insert_index,
         patch_apply_index |-> r.patch_apply_index,
         lines |-> lines]))

\* list.insert(index, x): x goes before the element at index (0-based), at the
\* end when index is beyond the list.
insert(list, index, x) ==
    IF index > Len(list) THEN Append(list, x)
    ELSE SubSeq(list, 1, index) \o <<x>> \o SubSeq(list, index + 1, Len(list))

_write_spec(b, lines) ==
    IF Exited(b) THEN b
    ELSE [b EXCEPT !.world.fs = write(@, b.self.spec_file, lines)]

patch_upstream(b) ==
    IF Exited(b) THEN b
    ELSE
    Do(b.self.upstream_tag \o "-to-" \o project_name \o "-" \o build_version \o ".patch",
       LAMBDA patch_filename :
    Do(path_join(b.self.rpmbuild_gitcopy, patch_filename), LAMBDA patch_file :
    Then(run_command(b, "git diff --relative " \o b.self.upstream_tag \o ".."
                        \o git_commit_id \o " > " \o patch_file), LAMBDA b1 :
    Then(run_command([b1 EXCEPT !.world.fs = write(@, patch_file, <<"diff">>)],
                     "cp " \o patch_file \o " " \o rpmbuild_sourcedir), LAMBDA b2 :
    Do(_patch_upstream([b2 EXCEPT !.world.fs = cp(@, patch_file, rpmbuild_sourcedir)]),
       LAMBDA r :
        _write_spec(r.b,
            insert(insert(r.lines, r.patch_insert_index,
                          "Patch" \o str(r.patch_number) \o ": " \o patch_filename),
                   r.patch_apply_index,
                   "%patch" \o str(r.patch_number) \o " -p1")))))))

\* The output of: cat spec | grep 'define upstreamversion' | awk '{ print $3 ; exit }'
grep_upstreamversion(lines) ==
    Do(SelectSeq(lines, LAMBDA line : instr("define upstreamversion", line)), LAMBDA hits :
        IF hits = <<>> THEN ""
        ELSE Do(SelectSeq(split(hits[1], " "), LAMBDA f : f # ""), LAMBDA fields :
                IF Len(fields) < 3 THEN "" ELSE fields[3]))

_get_upstream_version(b) ==
    Do(grep_upstreamversion(readlines(b.world.fs, b.self.spec_file)), LAMBDA output :
        IF output # "" THEN output
        ELSE IF b.self.test THEN split(build_version, "-")[1]
        ELSE b.self.display_version)

\* tito.common.check_tag_exists(tag, offline): looks the tag up unless offline.
check_tag_exists(b, tag, offline) ==
    IF Exited(b) \/ offline THEN b ELSE run_command(b, "git ls-remote --tags " \o tag)

\* UpstreamBuilder.tgz patching only when the tags differ.
UpstreamBuilder_tgz_ignoring_test(b) ==
    Then(_setup_sources(b), LAMBDA b0 :
    Then(_create_build_dirs(b0), LAMBDA b1 :
    Do(_get_upstream_version(b1), LAMBDA upstream_version :
    Do(b1.self.upstream_name \o "-" \o upstream_version \o "-1", LAMBDA upstream_tag :
    Then(IF upstream_tag # build_tag
         THEN check_tag_exists(b1, upstream_tag, b1.self.offline) ELSE b1, LAMBDA b2 :
    Do(path_join(rpmbuild_sourcedir, b1.self.spec_file_name), LAMBDA spec_file :
    Then(run_command(b2, "cp " \o path_join(b1.self.rpmbuild_gitcopy, b1.self.spec_file_name)
                         \o " " \o spec_file), LAMBDA b3 :
    Do(path_join(rpmbuild_sourcedir,
                 b1.self.upstream_name \o "-" \o upstream_version \o ".tar.gz"),
       LAMBDA tgz_fullpath :
    Then(create_tgz([b3 EXCEPT !.self.upstream_version = upstream_version,
                               !.self.upstream_tag = upstream_tag,
                               !.self.spec_file = spec_file,
                               !.world.fs = cp(@, path_join(b1.self.rpmbuild_gitcopy,
                                                            b1.self.spec_file_name),
                                               spec_file)],
                    upstream_tag, tgz_fullpath), LAMBDA b4 :
    Do([b4 EXCEPT !.self.ran_tgz = TRUE, !.self.sources = Append(@, tgz_fullpath)],
       LAMBDA b5 :
        IF upstream_tag = build_tag THEN b5
        ELSE patch_upstream(b5)))))))))))

UpstreamBuilder_tgz(b) ==
    Then(_setup_sources(b), LAMBDA b0 :
    Then(_create_build_dirs(b0), LAMBDA b1 :
    Do(_get_upstream_version(b1), LAMBDA upstream_version :
    Do(b1.self.upstream_name \o "-" \o upstream_version \o "-1", LAMBDA upstream_tag :
    Then(IF upstream_tag # build_tag
         THEN check_tag_exists(b1, upstream_tag, b1.self.offline) ELSE b1, LAMBDA b2 :
    Do(path_join(rpmbuild_sourcedir, b1.self.spec_file_name), LAMBDA spec_file :
    Then(run_command(b2, "cp " \o path_join(b1.self.rpmbuild_gitcopy, b1.self.spec_file_name)
                         \o " " \o spec_file), LAMBDA b3 :
    Do(path_join(rpmbuild_sourcedir,
                 b1.self.upstream_name \o "-" \o upstream_version \o ".tar.gz"),
       LAMBDA tgz_fullpath :
    Then(create_tgz([b3 EXCEPT !.self.upstream_version = upstream_version,
                               !.self.upstream_tag = upstream_tag,
                               !.self.spec_file = spec_file,
                               !.world.fs = cp(@, path_join(b1.self.rpmbuild_gitcopy,
                                                            b1.self.spec_file_name),
                                               spec_file)],
                    upstream_tag, tgz_fullpath), LAMBDA b4 :
    Do([b4 EXCEPT !.self.ran_tgz = TRUE, !.self.sources = Append(@, tgz_fullpath)],
       LAMBDA b5 :
        IF upstream_tag = build_tag /\ ~b5.self.test THEN b5
        ELSE patch_upstream(b5)))))))))))

tgz(b) ==
    CASE b.self.variant = "Builder" -> Builder_tgz(b)
      [] b.self.variant \in {"NoTgzBuilder", "CvsBuilder"} -> NoTgzBuilder_tgz(b)
      [] b.self.variant = "UpstreamBuilder" -> UpstreamBuilder_tgz(b)

(***************************************************************************)
(* Building packages                                                       *)
(***************************************************************************)
\* Op(b, x) for each x of items in turn, from b.
for_each(b, items, Op(_, _)) ==
    LET after[i \in 0..Len(items)] ==
            IF i = 0 THEN b ELSE Do(after[i - 1], LAMBDA b1 : Op(b1, items[i]))
    IN  after[Len(items)]

\* _find_wrote_in_rpmbuild_output taking "Wrote: " anywhere in a line.
_find_wrote_in_rpmbuild_output_anywhere(b, output) ==
    Do(SelectSeq(split(output, "\n"), LAMBDA line : instr("Wrote: ", line)),
       LAMBDA hits :
        [b |-> IF hits = <<>> THEN error_out(b) ELSE b,
         paths |-> [i \in 1..Len(hits) |->
                       SubSeq(hits[i], Len("Wrote: ") + 1, Len(hits[i]))]])

\* _find_wrote_in_rpmbuild_output: [b, paths]
_find_wrote_in_rpmbuild_output(b, output) ==
    Do(SelectSeq(split(output, "\n"), LAMBDA line : startswith(line, "Wrote: ")),
       LAMBDA hits :
        [b |-> IF hits = <<>> THEN error_out(b) ELSE b,
         paths |-> [i \in 1..Len(hits) |->
                       SubSeq(hits[i], Len("Wrote: ") + 1, Len(hits[i]))]])

_get_rpmbuild_dir_options(b) ==
    "--define \"_sourcedir "
    \o (IF b.self.variant \in {"NoTgzBuilder", "CvsBuilder"}
        THEN b.self.rpmbuild_gitcopy ELSE rpmbuild_sourcedir)
    \o "\" --define \"_builddir " \o rpmbuild_builddir
    \o "\" --define \"_srcrpmdir " \o rpmbuild_basedir
    \o "\" --define \"_rpmdir " \o rpmbuild_basedir \o "\" "

\* How a package build can go: both packages written, the source package only,
\* or none.
BuildOutcomes == {"ok", "srpm-only", "nothing"}

\* The dist of the build host, used when the command defines none.
system_dist == ".fc12"

\* The package file a build writes into dir.
package_path(dir, dist, arch) ==
    path_join(dir, build_tag \o dist \o "." \o arch \o ".rpm")

\* What the build tool prints: a "Wrote: <path>" line for each package written,
\* the source package first, among other lines.
build_output(outcome, binary, dir, dist) ==
    CASE outcome = "nothing" -> "error: Failed build dependencies:"
      [] outcome = "debuginfo" /\ binary ->
            "Executing(%build)\nWrote: " \o package_path(dir, dist, "src")
            \o "\nWrote: " \o package_path(dir, dist, "x86_64")
            \o "\nWrote: " \o path_join(dir, project_name \o "-debuginfo-" \o build_version
                                              \o dist \o ".x86_64.rpm")
      [] outcome # "nothing" /\ (outcome = "srpm-only" \/ ~binary) ->
            "Executing(%prep)\nWrote: " \o package_path(dir, dist, "src")
      [] OTHER ->
            "Executing(%build)\nWrote: " \o package_path(dir, dist, "src")
            \o "\nWrote: " \o package_path(dir, dist, "x86_64")
            \o "\nExecuting(%clean)"

\* The file system with the packages written.
wrote(fs, paths) ==
    [q \in DOMAIN fs \cup {paths[i] : i \in 1..Len(paths)} |->
        IF q \in DOMAIN fs THEN fs[q] ELSE <<"rpm">>]

Builder__srpm(b, dist, outcome) ==
    Then(_create_build_dirs(b), LAMBDA b1 :
    Then(IF ~b1.self.ran_tgz THEN tgz(b1) ELSE b1, LAMBDA b2 :
    Then(IF b2.self.test THEN _setup_test_specfile(b2) ELSE b2, LAMBDA b3 :
    Do(IF truthy(b3.self.dist) THEN b3.self.dist ELSE IF truthy(dist) THEN dist ELSE "",
       LAMBDA d :
    Do(build_output(outcome, FALSE, rpmbuild_basedir, IF d = "" THEN system_dist ELSE d),
       LAMBDA output :
    Then(run_command_giving(b3,
            "LC_ALL=C rpmbuild --define \"_source_filedigest_algorithm md5\"  --define "
            \o "\"_binary_filedigest_algorithm md5\" " \o b3.self.rpmbuild_options \o " "
            \o _get_rpmbuild_dir_options(b3) \o " "
            \o (IF d = "" THEN "" ELSE "--define 'dist " \o d \o "'")
            \o " --nodeps -bs " \o b3.self.spec_file, output), LAMBDA b4 :
    Do(_find_wrote_in_rpmbuild_output(b4, output), LAMBDA r :
        IF Exited(r.b) THEN r.b
        ELSE [r.b EXCEPT !.world.fs = wrote(@, r.paths),
                         !.self.srpm_location = r.paths[1],
                         !.self.artifacts = Append(@, r.paths[1])])))))))

\* The packages of files_written[1:] that match no entry of dont_install.
do_install(files_written, dont_install) ==
    SelectSeq(Tail(files_written),
              LAMBDA to_inst : \A i \in 1..Len(dont_install) :
                                  ~instr(dont_install[i], to_inst))

\* Builder._rpm without the test for two paths written.
Builder__rpm_unchecked(b, outcome) ==
    Then(_create_build_dirs(b), LAMBDA b1 :
    Then(IF ~b1.self.ran_tgz THEN tgz(b1) ELSE b1, LAMBDA b2 :
    Then(IF b2.self.test THEN _setup_test_specfile(b2) ELSE b2, LAMBDA b3 :
    Do(IF truthy(b3.self.dist) THEN b3.self.dist ELSE "", LAMBDA d :
    Do(build_output(outcome, TRUE, rpmbuild_basedir, IF d = "" THEN system_dist ELSE d),
       LAMBDA output :
    Then(run_command_giving(b3,
            "LC_ALL=C rpmbuild --define \"_source_filedigest_algorithm md5\"  "
            \o "--define \"_binary_filedigest_algorithm md5\" " \o b3.self.rpmbuild_options
            \o " " \o _get_rpmbuild_dir_options(b3) \o " "
            \o (IF d = "" THEN "" ELSE "--define 'dist " \o d \o "'")
            \o " --clean -ba " \o b3.self.spec_file, output), LAMBDA b4 :
    Do(_find_wrote_in_rpmbuild_output(b4, output), LAMBDA r :
    Then(r.b, LAMBDA b5 :
    Do([b5 EXCEPT !.world.fs = wrote(@, r.paths),
                  !.self.srpm_location = r.paths[1],
                  !.self.artifacts = @ \o r.paths], LAMBDA b6 :
        IF ~b6.self.auto_install THEN b6
        ELSE run_command(b6, "sudo rpm -Uvh --force "
                \o join(" ", do_install(r.paths,
                        IF "NO_AUTO_INSTALL" \in DOMAIN env.user_config
                        THEN split(env.user_config["NO_AUTO_INSTALL"], " ")
                        ELSE <<>>))))))))))))

Builder__rpm(b, outcome) ==
    Then(_create_build_dirs(b), LAMBDA b1 :
    Then(IF ~b1.self.ran_tgz THEN tgz(b1) ELSE b1, LAMBDA b2 :
    Then(IF b2.self.test THEN _setup_test_specfile(b2) ELSE b2, LAMBDA b3 :
    Do(IF truthy(b3.self.dist) THEN b3.self.dist ELSE "", LAMBDA d :
    Do(build_output(outcome, TRUE, rpmbuild_basedir, IF d = "" THEN system_dist ELSE d),
       LAMBDA output :
    Then(run_command_giving(b3,
            "LC_ALL=C rpmbuild --define \"_source_filedigest_algorithm md5\"  "
            \o "--define \"_binary_filedigest_algorithm md5\" " \o b3.self.rpmbuild_options
            \o " " \o _get_rpmbuild_dir_options(b3) \o " "
            \o (IF d = "" THEN "" ELSE "--define 'dist " \o d \o "'")
            \o " --clean -ba " \o b3.self.spec_file, output), LAMBDA b4 :
    Do(_find_wrote_in_rpmbuild_output(b4, output), LAMBDA r :
    Then(IF Len(r.paths) < 2 THEN error_out(r.b) ELSE r.b, LAMBDA b5 :
    Do([b5 EXCEPT !.world.fs = wrote(@, r.paths),
                  !.self.srpm_location = r.paths[1],
                  !.self.artifacts = @ \o r.paths], LAMBDA b6 :
        IF ~b6.self.auto_install THEN b6
        ELSE run_command(b6, "sudo rpm -Uvh --force "
                \o join(" ", do_install(r.paths,
                        IF "NO_AUTO_INSTALL" \in DOMAIN env.user_config
                        THEN split(env.user_config["NO_AUTO_INSTALL"], " ")
                        ELSE <<>>))))))))))))

\* The cleanup that leaves the checkout of the package behind.
cleanup_leaving_checkout(b) ==
    IF b.self.no_cleanup THEN b
    ELSE [run_command(getoutput(b, "rm -rf " \o rpmbuild_dir),
                      "rm -rf " \o cvs_package_workdir)
            EXCEPT !.world.fs = rm_rf(@, rpmbuild_dir)]

cleanup(b) ==
    IF b.self.no_cleanup THEN b
    ELSE [run_command(getoutput(b, "rm -rf " \o rpmbuild_dir),
                      "rm -rf " \o cvs_package_workdir)
            EXCEPT !.world.fs = rm_rf(rm_rf(@, rpmbuild_dir), cvs_package_workdir)]

\* self.cleanup() then sys.exit(1)
cleanup_and_exit(b) == IF Exited(b) THEN b ELSE error_out(cleanup(b))

(***************************************************************************)
(* Syncing files into a build-system checkout                              *)
(***************************************************************************)
\* _list_files_to_copy without the test for protected names.
_list_files_to_copy_unprotected(b) ==
    Do(SelectSeq(SetToSeq(listdir(b.world.fs, b.self.rpmbuild_gitcopy)),
                 LAMBDA filename :
                    /\ ~isdir(b.world.fs, path_join(b.self.rpmbuild_gitcopy, filename))
                    /\ ~endswith(filename, ".spec")
                    /\ \E i \in 1..Len(b.self.cvs_copy_extensions) :
                          endswith(filename, b.self.cvs_copy_extensions[i])),
       LAMBDA names :
        <<b.self.spec_file>>
        \o [i \in 1..Len(names) |-> path_join(b.self.rpmbuild_gitcopy, names[i])])

_list_files_to_copy(b) ==
    Do(SelectSeq(SetToSeq(listdir(b.world.fs, b.self.rpmbuild_gitcopy)),
                 LAMBDA filename :
                    /\ ~isdir(b.world.fs, path_join(b.self.rpmbuild_gitcopy, filename))
                    /\ filename \notin PROTECTED_BUILD_SYS_FILES
                    /\ ~endswith(filename, ".spec")
                    /\ \E i \in 1..Len(b.self.cvs_copy_extensions) :
                          endswith(filename, b.self.cvs_copy_extensions[i])),
       LAMBDA names :
        <<b.self.spec_file>>
        \o [i \in 1..Len(names) |-> path_join(b.self.rpmbuild_gitcopy, names[i])])

\* The copy loop of _sync_files: [b, new_files]
RECURSIVE _sync_files_copy(_, _, _, _)
_sync_files_copy(b, files_to_copy, dest_dir, new_files) ==
    IF files_to_copy = <<>> \/ Exited(b) THEN [b |-> b, new_files |-> new_files]
    ELSE _sync_files_copy(
            [run_command(b, "cp " \o Head(files_to_copy) \o " "
                            \o path_join(dest_dir, basename(Head(files_to_copy))))
                EXCEPT !.world.fs = cp(@, Head(files_to_copy),
                                       path_join(dest_dir, basename(Head(files_to_copy))))],
            Tail(files_to_copy), dest_dir,
            IF exists(b.world.fs, path_join(dest_dir, basename(Head(files_to_copy))))
            THEN Append(new_files, basename(Head(files_to_copy)))
            ELSE new_files)

\* _sync_files: [b, new_files, copied_files, old_files]
_sync_files(b, files_to_copy, dest_dir) ==
    Do(_sync_files_copy(b, files_to_copy, dest_dir, <<>>), LAMBDA r :
        [b |-> r.b,
         new_files |-> r.new_files,
         copied_files |-> <<>>,
         old_files |->
            SelectSeq(SetToSeq(listdir(r.b.world.fs, dest_dir)),
                      LAMBDA filename :
                         /\ filename \notin PROTECTED_BUILD_SYS_FILES
                         /\ ~contains([i \in 1..Len(files_to_copy) |->
                                          basename(files_to_copy[i])], filename))])

\* os.path.join(self.cvs_workdir, self.project_name, branch)
branch_dir(branch) == path_join(path_join(cvs_workdir, project_name), branch)

_cvs_sync_files(b) ==
    IF Exited(b) THEN b
    ELSE Do(_list_files_to_copy(b), LAMBDA files_to_copy :
         for_each(b, b.self.cvs_branches, LAMBDA b1, branch :
            IF Exited(b1) THEN b1
            ELSE Do(_sync_files(b1, files_to_copy, branch_dir(branch)), LAMBDA r :
                 for_each(
                    for_each(r.b, r.new_files,
                             LAMBDA b2, add_file : getoutput(b2, "cvs add " \o add_file)),
                    r.old_files,
                    LAMBDA b3, cleanup_file :
                       IF Exited(b3) THEN b3
                       ELSE [run_command(b3, "cvs rm -Rf " \o cleanup_file)
                               EXCEPT !.world.fs =
                                  rm_rf(@, path_join(branch_dir(branch), cleanup_file))]))))

\* _git_sync_files(project_checkout)
_git_sync_files(b, project_checkout) ==
    IF Exited(b) THEN b
    ELSE Do(_list_files_to_copy(b), LAMBDA files_to_copy :
         Do(_sync_files(b, files_to_copy, project_checkout), LAMBDA r :
            for_each(
               for_each(r.b, r.new_files \o r.copied_files,
                        LAMBDA b2, add_file : getoutput(b2, "git add " \o add_file)),
               r.old_files,
               LAMBDA b3, cleanup_file :
                  IF Exited(b3) THEN b3
                  ELSE [run_command(b3, "git rm " \o cleanup_file)
                          EXCEPT !.world.fs =
                             rm_rf(@, path_join(project_checkout, cleanup_file))])))

(***************************************************************************)
(* The CVS release                                                         *)
(***************************************************************************)
\* hasattr(self, name), for the attributes __init__ sets only when configured.
hasattr(b, name) == name \in b.self.attrs

_can_build_in_cvs ==
    /\ has_section("cvs")
    /\ has_option("cvs", "cvsroot")
    /\ has_option("cvs", "branches")

_can_build_in_koji ==
    /\ has_section("koji")
    /\ has_option("koji", "autobuild_tags")

_verify_cvs_module_not_already_checked_out(b) ==
    IF exists(b.world.fs, path_join(cvs_workdir, project_name)) THEN error_out(b) ELSE b

\* commands.getoutput("mkdir -p %s" % self.cvs_workdir)
mkdir_cvs_workdir(b) ==
    IF Exited(b) THEN b
    ELSE [getoutput(b, "mkdir -p " \o cvs_workdir)
            EXCEPT !.world.fs = mkdir_p(@, {cvs_workdir})]

\* The file system after cvs co: the module's branches under the package workdir.
checkout(fs, module) ==
    [q \in DOMAIN fs \cup {cvs_package_workdir}
           \cup {branch_dir(br) : br \in DOMAIN module}
           \cup UNION {{path_join(branch_dir(br), n) : n \in DOMAIN module[br]} :
                       br \in DOMAIN module} |->
        IF q = cvs_package_workdir \/ q \in {branch_dir(br) : br \in DOMAIN module} THEN Dir
        ELSE IF \E br \in DOMAIN module :
                   dirname(q) = branch_dir(br) /\ basename(q) \in DOMAIN module[br]
             THEN module[basename(dirname(q))][basename(q)]
             ELSE fs[q]]

_cvs_checkout_module(b) ==
    IF Exited(b) THEN b
    ELSE IF ~hasattr(b, "cvs_root") THEN raise(b)
    ELSE [run_command(b, "cvs -d " \o b.self.cvs_root \o " co " \o project_name)
            EXCEPT !.world.fs = checkout(@, env.module)]

\* _cvs_verify_branches_exist looking at the first branch only.
_cvs_verify_branches_exist_first(b) ==
    IF Exited(b) THEN b
    ELSE IF ~hasattr(b, "cvs_branches") THEN raise(b)
    ELSE IF ~exists(b.world.fs, branch_dir(b.self.cvs_branches[1])) THEN error_out(b)
    ELSE b

_cvs_verify_branches_exist(b) ==
    IF Exited(b) THEN b
    ELSE IF ~hasattr(b, "cvs_branches") THEN raise(b)
    ELSE IF \E i \in 1..Len(b.self.cvs_branches) :
               ~exists(b.world.fs, branch_dir(b.self.cvs_branches[i]))
         THEN error_out(b)
         ELSE b

_cvs_upload_sources(b) ==
    IF Exited(b) \/ b.self.sources = <<>> THEN b
    ELSE IF b.self.dry_run
         THEN IF b.self.cvs_branches = <<>> THEN b
              ELSE print_dry_run_warning(b,
                      "make new-sources FILES=\"" \o join(" ", b.self.sources) \o "\"")
         ELSE for_each(b, b.self.cvs_branches, LAMBDA b1, branch :
                 run_command(b1,
                     "make new-sources FILES=\"" \o join(" ", b1.self.sources) \o "\""))

Upper == "ABCDEFGHIJKLMNOPQRSTUVWXYZ"
Lower == "abcdefghijklmnopqrstuvwxyz"

\* str.lower()
RECURSIVE lower(_)
lower(s) ==
    IF s = "" THEN ""
    ELSE (IF find(Upper, SubSeq(s, 1, 1)) > 0
          THEN SubSeq(Lower, find(Upper, SubSeq(s, 1, 1)), find(Upper, SubSeq(s, 1, 1)))
          ELSE SubSeq(s, 1, 1))
         \o lower(SubSeq(s, 2, Len(s)))

\* answer.lower() in ['y', 'yes', 'ok', 'sure']
said_yes(answer) == lower(answer) \in {"y", "yes", "ok", "sure"}

\* The temporary file of the commit message.
commit_msg_file == "/tmp/tmpmsg"

_cvs_user_confirm_commit_msg(b, edit) ==
    IF Exited(b) THEN b
    ELSE
    Do([b EXCEPT !.world.fs =
            write(@, commit_msg_file,
                  <<"Update " \o project_name \o " to " \o build_version>>)], LAMBDA b1 :
    Do(IF said_yes(edit) THEN issue(b1, "vi " \o commit_msg_file) ELSE b1, LAMBDA b2 :
    Do(IF b2.self.dry_run THEN print_dry_run_warning(b2, "cvs commit -F " \o commit_msg_file)
       ELSE run_command(b2, "cvs commit -F " \o commit_msg_file), LAMBDA b3 :
        IF Exited(b3) THEN b3
        ELSE [b3 EXCEPT !.world.fs = rm_rf(@, commit_msg_file)])))

\* _cvs_user_confirm_commit going on to the tag step when the user declines.
_cvs_user_confirm_commit_carrying_on(b, answer, edit) ==
    Then(getoutput(b, "cvs diff -u"), LAMBDA b1 :
    Do([b1 EXCEPT !.world.answers = Append(@, answer)], LAMBDA b2 :
        IF ~said_yes(answer) THEN b2
        ELSE _cvs_user_confirm_commit_msg(b2, edit)))

\* raw_input(prompt): the answer the user types.
raw_input(b, answer) == [b EXCEPT !.world.answers = Append(@, answer)]

_cvs_user_confirm_commit(b, answer, edit) ==
    Then(getoutput(b, "cvs diff -u"), LAMBDA b1 :
    Do(raw_input(b1, answer), LAMBDA b2 :
        IF ~said_yes(answer) THEN cleanup_and_exit(b2)
        ELSE _cvs_user_confirm_commit_msg(b2, edit)))

_cvs_make_tag(b, status) ==
    IF Exited(b) THEN b
    ELSE IF b.self.dry_run THEN print_dry_run_warning(b, "make tag")
    ELSE for_each(b, b.self.cvs_branches, LAMBDA b1, branch :
            Then(getstatusoutput(b1, "make tag", status), LAMBDA b2 :
                IF status > 1 THEN cleanup_and_exit(b2) ELSE b2))

\* _cvs_make_build without the test for dry-run.
_cvs_make_build_always(b) ==
    IF Exited(b) THEN b
    ELSE for_each(b, b.self.cvs_branches, LAMBDA b1, branch :
            run_command(b1, "BUILD_FLAGS=--nowait make build"))

_cvs_make_build(b) ==
    IF Exited(b) THEN b
    ELSE IF b.self.dry_run THEN print_dry_run_warning(b, "BUILD_FLAGS=--nowait make build")
    ELSE for_each(b, b.self.cvs_branches, LAMBDA b1, branch :
            run_command(b1, "BUILD_FLAGS=--nowait make build"))

\* _cvs_release tagging before it asks the user to confirm the commit.
_cvs_release_tagging_first(b, answer, edit, status) ==
    Then(_verify_cvs_module_not_already_checked_out(b), LAMBDA b1 :
    Then(mkdir_cvs_workdir(b1), LAMBDA b2 :
    Then(IF ~hasattr(b2, "cvs_branches") THEN raise(b2) ELSE _cvs_checkout_module(b2),
         LAMBDA b3 :
    Then(_cvs_verify_branches_exist(b3), LAMBDA b4 :
    Then(tgz(b4), LAMBDA b5 :
    Then(_cvs_sync_files(b5), LAMBDA b6 :
    Then(_cvs_upload_sources(b6), LAMBDA b7 :
    Then(_cvs_make_tag(b7, status), LAMBDA b8 :
    Then(_cvs_user_confirm_commit(b8, answer, edit), LAMBDA b9 :
        _cvs_make_build(b9))))))))))

_cvs_release(b, answer, edit, status) ==
    Then(_verify_cvs_module_not_already_checked_out(b), LAMBDA b1 :
    Then(mkdir_cvs_workdir(b1), LAMBDA b2 :
    Then(IF ~hasattr(b2, "cvs_branches") THEN raise(b2) ELSE _cvs_checkout_module(b2),
         LAMBDA b3 :
    Then(_cvs_verify_branches_exist(b3), LAMBDA b4 :
    Then(tgz(b4), LAMBDA b5 :
    Then(_cvs_sync_files(b5), LAMBDA b6 :
    Then(_cvs_upload_sources(b6), LAMBDA b7 :
    Then(_cvs_user_confirm_commit(b7, answer, edit), LAMBDA b8 :
    Then(_cvs_make_tag(b8, status), LAMBDA b9 :
        _cvs_make_build(b9))))))))))

(***************************************************************************)
(* The git release                                                         *)
(***************************************************************************)
_git_upload_sources(b, project_checkout) ==
    IF Exited(b) \/ b.self.sources = <<>> THEN b
    ELSE IF b.self.dry_run
         THEN print_dry_run_warning(b, "fedpkg new-sources " \o join(" ", b.self.sources))
         ELSE run_command(b, "fedpkg new-sources " \o join(" ", b.self.sources))

_git_user_confirm_commit(b, project_checkout, answer) ==
    Then(getoutput(b, "fedpkg diff"), LAMBDA b1 :
    Do(raw_input(b1, answer), LAMBDA b2 :
        IF ~said_yes(answer) THEN cleanup_and_exit(b2)
        ELSE IF b2.self.dry_run
        THEN print_dry_run_warning(b2, "fedpkg commit -m \"Update " \o project_name
                                       \o " to " \o build_version \o "\"")
        ELSE run_command(b2, "fedpkg commit -m \"Update " \o project_name
                             \o " to " \o build_version \o "\"")))

\* pyfedpkg.clone(self.project_name, None, self.cvs_workdir): the checkout of the
\* project appears in the work directory.
clone(b) ==
    IF Exited(b) THEN b
    ELSE [issue(b, "pyfedpkg.clone " \o project_name \o " " \o cvs_workdir)
            EXCEPT !.world.fs = mkdir_p(@, {cvs_package_workdir})]

_git_release(b, answer) ==
    Then(mkdir_cvs_workdir(b), LAMBDA b1 :
    Then(clone(b1), LAMBDA b2 :
    Do(path_join(cvs_workdir, project_name), LAMBDA project_checkout :
    Then(tgz(b2), LAMBDA b3 :
    Then(_git_sync_files(b3, project_checkout), LAMBDA b4 :
    Then(_git_upload_sources(b4, project_checkout), LAMBDA b5 :
        _git_user_confirm_commit(b5, project_checkout, answer)))))))

(***************************************************************************)
(* CvsBuilder: packages built with the CVS make targets                    *)
(***************************************************************************)
\* The steps of _cvs_rpm_common up to the make command.
_cvs_rpm_common_setup(b, reuse_cvs_checkout) ==
    Then(_create_build_dirs(b), LAMBDA b1 :
    Then(IF ~b1.self.ran_tgz THEN tgz(b1) ELSE b1, LAMBDA b2 :
    Then(IF ~_can_build_in_cvs THEN error_out(b2) ELSE b2, LAMBDA b3 :
    Then(IF ~reuse_cvs_checkout THEN _verify_cvs_module_not_already_checked_out(b3) ELSE b3,
         LAMBDA b4 :
    Then(mkdir_cvs_workdir(b4), LAMBDA b5 :
    Then(_cvs_checkout_module(b5), LAMBDA b6 :
    Then(_cvs_verify_branches_exist(b6), LAMBDA b7 :
    Then(IF b7.self.test THEN _setup_test_specfile(b7) ELSE b7, LAMBDA b8 :
    Then(_cvs_sync_files(b8), LAMBDA b9 :
        _cvs_upload_sources(b9))))))))))

\* _cvs_rpm_common: [b, rpms]
_cvs_rpm_common(b, target, dist, reuse_cvs_checkout, outcome) ==
    Do(_cvs_rpm_common_setup(b, reuse_cvs_checkout), LAMBDA b0 :
        IF Exited(b0) THEN [b |-> b0, rpms |-> <<>>]
        ELSE
        Do(IF b0.self.dist # None THEN b0.self.dist ELSE dist, LAMBDA d :
        Do(build_output(outcome, target # "test-srpm",
                        branch_dir(b0.self.cvs_branches[Len(b0.self.cvs_branches)]),
                        IF d = None THEN system_dist ELSE d), LAMBDA output :
        Do(SelectSeq(split(output, "\n"), LAMBDA line : startswith(line, "Wrote: ")),
           LAMBDA lines :
            [b |-> for_each(
                      run_command_giving(b0,
                          "make " \o (IF d = None THEN "" ELSE "DIST=" \o d)
                          \o " " \o target, output),
                      lines,
                      LAMBDA b1, line :
                         IF Exited(b1) THEN b1
                         ELSE [run_command(b1, "mv " \o split(strip(line), " ")[2] \o " "
                                               \o rpmbuild_basedir)
                                 EXCEPT !.world.fs =
                                    wrote(@, <<path_join(rpmbuild_basedir,
                                        basename(split(strip(line), " ")[2]))>>)]),
             rpms |-> [i \in 1..Len(lines) |->
                         path_join(rpmbuild_basedir,
                                   basename(split(strip(lines[i]), " ")[2]))]]))))

CvsBuilder__srpm(b, dist, reuse_cvs_checkout, outcome) ==
    Do(_cvs_rpm_common(b, "test-srpm", dist, reuse_cvs_checkout, outcome), LAMBDA r :
        IF Exited(r.b) THEN r.b
        ELSE IF r.rpms = <<>> THEN raise(r.b)
        ELSE [r.b EXCEPT !.self.srpm_location = r.rpms[1]])

CvsBuilder__rpm(b, outcome) ==
    Then(run_command(b, "uname -i"), LAMBDA b1 :
        _cvs_rpm_common(b1, "x86_64", None, FALSE, outcome).b)

_srpm(b, dist, reuse_cvs_checkout, outcome) ==
    IF b.self.variant = "CvsBuilder"
    THEN CvsBuilder__srpm(b, dist, reuse_cvs_checkout, outcome)
    ELSE Builder__srpm(b, dist, outcome)

_rpm(b, outcome) ==
    IF b.self.variant = "CvsBuilder" THEN CvsBuilder__rpm(b, outcome)
    ELSE Builder__rpm(b, outcome)

(***************************************************************************)
(* The Koji release                                                        *)
(***************************************************************************)
\* __is_whitelisted looking for the name in the option's text, not in its words.
__is_whitelisted_in_text(koji_tag) ==
    /\ has_option(koji_tag, "whitelist")
    /\ instr(project_name, get(koji_tag, "whitelist"))

__is_whitelisted(koji_tag) ==
    /\ has_option(koji_tag, "whitelist")
    /\ contains(split(strip(get(koji_tag, "whitelist")), " "), project_name)

__is_blacklisted(koji_tag) ==
    /\ has_option(koji_tag, "blacklist")
    /\ contains(split(strip(get(koji_tag, "blacklist")), " "), project_name)

\* _submit_build without the test for dry-run.
_submit_build_always(b, executable, koji_opts, tag) ==
    run_command(b, executable \o " " \o koji_opts \o " " \o tag \o " "
                   \o b.self.srpm_location)

_submit_build(b, executable, koji_opts, tag) ==
    IF Exited(b) THEN b
    ELSE IF b.self.dry_run
         THEN print_dry_run_warning(b, executable \o " " \o koji_opts \o " " \o tag \o " "
                                       \o b.self.srpm_location)
         ELSE run_command(b, executable \o " " \o koji_opts \o " " \o tag \o " "
                             \o b.self.srpm_location)

\* The options _koji_release submits with.
koji_opts(b) ==
    IF b.self.scratch
    THEN join(" ", <<IF "KOJI_OPTIONS" \in DOMAIN env.user_config
                     THEN env.user_config["KOJI_OPTIONS"] ELSE DEFAULT_KOJI_OPTS,
                     "--scratch">>)
    ELSE IF "KOJI_OPTIONS" \in DOMAIN env.user_config
         THEN env.user_config["KOJI_OPTIONS"] ELSE DEFAULT_KOJI_OPTS

\* The iteration building a source package only when none has been built yet.
_koji_release_tag_reusing(b, koji_tag, opts, outcome) ==
    IF Exited(b) THEN b
    ELSE IF b.self.only_tags # <<>> /\ ~contains(b.self.only_tags, koji_tag) THEN b
    ELSE IF ~has_option(koji_tag, "disttag") THEN raise(b)
    ELSE IF has_option(koji_tag, "whitelist") /\ ~__is_whitelisted(koji_tag) THEN b
    ELSE IF ~has_option(koji_tag, "whitelist") /\ __is_blacklisted(koji_tag) THEN b
    ELSE Then(IF b.self.srpm_location # None THEN b
              ELSE _srpm(b, get(koji_tag, "disttag"), TRUE, outcome), LAMBDA b1 :
            _submit_build(b1, "koji", opts, koji_tag))

\* One iteration of the loop of _koji_release.
_koji_release_tag(b, koji_tag, opts, outcome) ==
    IF Exited(b) THEN b
    ELSE IF b.self.only_tags # <<>> /\ ~contains(b.self.only_tags, koji_tag) THEN b
    ELSE IF ~has_option(koji_tag, "disttag") THEN raise(b)
    ELSE IF has_option(koji_tag, "whitelist") /\ ~__is_whitelisted(koji_tag) THEN b
    ELSE IF ~has_option(koji_tag, "whitelist") /\ __is_blacklisted(koji_tag) THEN b
    ELSE Then(_srpm(b, get(koji_tag, "disttag"), TRUE, outcome), LAMBDA b1 :
            _submit_build(b1, "koji", opts, koji_tag))

\* outcomes[i]: how the build for the i-th tag goes, if there is one.
_koji_release(b, outcomes) ==
    IF Exited(b) THEN b
    ELSE IF ~has_option("koji", "autobuild_tags") THEN raise(b)
    ELSE Do(split(strip(get("koji", "autobuild_tags")), " "), LAMBDA koji_tags :
         for_each(b, [i \in 1..Len(koji_tags) |-> i], LAMBDA b1, i :
            _koji_release_tag(b1, koji_tags[i], koji_opts(b), outcomes[i])))

\* The lines _list_tags prints for the tags, debug telling whether DEBUG is in
\* the environment.
RECURSIVE _list_tags_print(_, _)
_list_tags_print(koji_tags, debug) ==
    IF koji_tags = <<>> THEN <<>>
    ELSE (IF __is_whitelisted(Head(koji_tags))
          THEN <<IF debug THEN Head(koji_tags) \o " whitelisted" ELSE Head(koji_tags)>>
          ELSE IF __is_blacklisted(Head(koji_tags))
          THEN (IF debug THEN <<Head(koji_tags) \o " blacklisted">> ELSE <<>>)
          ELSE <<Head(koji_tags)>>)
         \o _list_tags_print(Tail(koji_tags), debug)

\* _list_tags: [b, printed]
_list_tags(b, debug) ==
    IF Exited(b) THEN [b |-> b, printed |-> <<>>]
    ELSE IF ~has_option("koji", "autobuild_tags") THEN [b |-> raise(b), printed |-> <<>>]
    ELSE [b |-> b,
          printed |-> _list_tags_print(split(strip(get("koji", "autobuild_tags")), " "),
                                       debug)]

release(b, answer, edit, status, outcomes) ==
    Then(IF _can_build_in_cvs THEN _cvs_release(b, answer, edit, status) ELSE b, LAMBDA b1 :
        IF _can_build_in_koji THEN _koji_release(b1, outcomes) ELSE b1)

(***************************************************************************)
(* Construction                                                            *)
(***************************************************************************)
\* The builder and its world after __init__.
__init__(variant, opts) ==
    Do(_get_display_version(build_version, opts.test, env.latest_commit, env.commit_count),
       LAMBDA display_version :
    Do(_get_tgz_name_and_ver(display_version), LAMBDA tgz_base :
        [self |->
            [variant |-> variant,
             dist |-> opts.dist,
             test |-> opts.test,
             offline |-> opts.offline,
             no_cleanup |-> FALSE,
             auto_install |-> opts.auto_install,
             rpmbuild_options |-> IF truthy(opts.rpmbuild_options)
                                  THEN opts.rpmbuild_options ELSE "",
             scratch |-> opts.scratch,
             only_tags |-> opts.only_tags,
             dry_run |-> opts.dry_run,
             display_version |-> display_version,
             commit_count |-> IF opts.test THEN env.commit_count ELSE None,
             tgz_filename |-> tgz_base \o ".tar.gz",
             tgz_dir |-> tgz_base,
             rpmbuild_gitcopy |-> path_join(rpmbuild_sourcedir, tgz_base),
             ran_tgz |-> FALSE,
             ran_setup_test_specfile |-> FALSE,
             spec_file_name |-> None,
             spec_file |-> None,
             sources |-> <<>>,
             artifacts |-> <<>>,
             srpm_location |-> None,
             attrs |-> {a \in {"cvs_root"} : has_option("cvs", "cvsroot")}
                       \cup {a \in {"cvs_branches"} : has_option("cvs", "branches")},
             cvs_root |-> IF has_option("cvs", "cvsroot") THEN get("cvs", "cvsroot")
                          ELSE None,
             cvs_branches |-> IF has_option("cvs", "branches")
                              THEN split(get("cvs", "branches"), " ") ELSE <<>>,
             cvs_copy_extensions |-> IF variant \in {"NoTgzBuilder", "CvsBuilder"}
                                     THEN <<"">> ELSE <<".spec", ".patch">>,
             upstream_name |-> project_name,
             upstream_version |-> None,
             upstream_tag |-> None],
         world |->
            IF exists(env.fs, rpmbuild_dir)
            THEN [fs |-> env.fs,
                  trace |-> <<[cmd |-> "rm -rf self.rpmbuild_dir", ran |-> TRUE,
                               status |-> 0, out |-> ""]>>,
                  answers |-> <<>>,
                  exit |-> None]
            ELSE [fs |-> env.fs, trace |-> <<>>, answers |-> <<>>, exit |-> None]]))

(***************************************************************************)
(* Configurations, options and projects                                    *)
(***************************************************************************)
KojiTagNames == <<"t1", "t2", "t3">>
KojiDistTags == <<".el5", ".el6", ".el7">>

\* A whitelist or blacklist option: absent, naming the project, or naming others.
ListValues == {None, " pkg other ", "pkgs other"}

\* The section of the i-th Koji tag.
TagSection(i, whitelist, blacklist) ==
    Map({<<"disttag", KojiDistTags[i]>>}
        \cup {<<"whitelist", v>> : v \in {whitelist} \ {None}}
        \cup {<<"blacklist", v>> : v \in {blacklist} \ {None}})

\* The configuration: a cvs section when branches is given, a koji section and
\* the tags' sections when autobuild_tags is given.
Config(branches, autobuild_tags, whitelist, blacklist) ==
    Map({<<"cvs", Map({<<"cvsroot", ":ext:cvs.example.com:/cvs/dist">>,
                       <<"branches", v>>})>> : v \in {branches} \ {None}}
        \cup {<<"koji", Map({<<"autobuild_tags", v>>})>> : v \in {autobuild_tags} \ {None}}
        \cup {<<KojiTagNames[i], TagSection(i, whitelist[i], blacklist[i])>> :
                 i \in {j \in DOMAIN whitelist : autobuild_tags # None}})

Options(stages, rel, test, dist, dry_run, only_tags) ==
    [tgz |-> stages.tgz, srpm |-> stages.srpm, rpm |-> stages.rpm,
     release |-> rel = "release",
     cvs_release |-> rel = "cvs_release",
     koji_release |-> rel = "koji_release",
     git_release |-> FALSE, list_tags |-> FALSE,
     test |-> test, dist |-> dist, dry_run |-> dry_run, only_tags |-> only_tags,
     scratch |-> FALSE, no_cleanup |-> FALSE, auto_install |-> FALSE,
     offline |-> FALSE, rpmbuild_options |-> None, cvs_new_sources |-> <<>>]

\* The descriptor of the project.
Descriptor ==
    <<"Name: pkg", "Source0: pkg-1.0.tar.gz", "%prep", "%setup -q", "%build">>

\* The top of the project's tree at the commit built: the descriptor and the
\* files named.
Tree(names, dirs) ==
    [n \in {"a.spec"} \cup names \cup dirs |->
        IF n = "a.spec" THEN Descriptor
        ELSE IF n \in dirs THEN Dir ELSE <<"git: " \o n>>]

\* The CVS module: in each branch, the entries named.
Module(branches, names, dirs) ==
    [br \in branches |->
        [n \in names \cup dirs |-> IF n \in dirs THEN Dir ELSE <<"cvs: " \o n>>]]

\* The build directory, without and with a checkout of the module left there.
CleanFs == Map({<<rpmbuild_basedir, Dir>>})
StaleCheckoutFs ==
    Map({<<rpmbuild_basedir, Dir>>, <<cvs_workdir, Dir>>, <<cvs_package_workdir, Dir>>,
         <<path_join(cvs_package_workdir, "F-1"), Dir>>,
         <<path_join(cvs_package_workdir, "F-2"), Dir>>,
         <<path_join(path_join(cvs_package_workdir, "F-2"), "a.spec"), <<"foreign">>>>})

Env(tree, module, fs) ==
    [tree |-> tree, module |-> module, fs |-> fs,
     user_config |-> Map({}),
     failing |-> None,
     latest_commit |-> git_commit_id, commit_count |-> "3"]

(***************************************************************************)
(* run(): one action for each stage                                        *)
(***************************************************************************)
Current == [self |-> self, world |-> world]

\* The builder and the world become b; run() goes on at next unless the process
\* has exited.
Continue(after, next) ==
    \E b \in {after} :
        /\ self' = b.self
        /\ world' = b.world
        /\ pc' = IF Exited(b) THEN "exit" ELSE next
        /\ UNCHANGED <<config, options, env, ret>>

\* The start of run(), CvsBuilder's included.
run_start(b) ==
    [b EXCEPT !.self.sources = IF b.self.variant = "CvsBuilder"
                               THEN @ \o options.cvs_new_sources ELSE @,
              !.self.no_cleanup = options.no_cleanup,
              !.self.artifacts = <<>>]

run_tgz ==
    /\ pc = "run"
    /\ Continue(IF options.tgz THEN tgz(run_start(Current)) ELSE run_start(Current), "srpm")

run_srpm ==
    /\ pc = "srpm"
    /\ \E outcome \in BuildOutcomes \ {"srpm-only"} :
          Continue(IF options.srpm THEN _srpm(Current, None, FALSE, outcome) ELSE Current,
                   "rpm")

run_rpm ==
    /\ pc = "rpm"
    /\ \E outcome \in BuildOutcomes :
          Continue(IF options.rpm THEN _rpm(Current, outcome) ELSE Current, "release")

\* What a CVS release meets: the answers of the user to the two prompts, and the
\* status of make tag.
ReleaseInputs ==
    {[answer |-> "n", edit |-> "n", status |-> 0],
     [answer |-> "Yes", edit |-> "n", status |-> 0],
     [answer |-> "y", edit |-> "OK", status |-> 1],
     [answer |-> "sure", edit |-> "no", status |-> 2]}

\* How the builds of a Koji release go, tag by tag.
KojiOutcomes ==
    {o \in [1..MaxTags -> {"ok", "nothing"}] : Cardinality({i \in 1..MaxTags : o[i] = "nothing"}) <= 1}

run_release ==
    /\ pc = "release"
    /\ options.release
    /\ \E in \in ReleaseInputs, outcomes \in KojiOutcomes :
          Continue(release(Current, in.answer, in.edit, in.status, outcomes), "cleanup")

\* run_cvs_release whenever cvs_release is set.
run_cvs_release_first ==
    /\ pc = "release"
    /\ options.cvs_release
    /\ \E in \in ReleaseInputs :
          Continue(_cvs_release(Current, in.answer, in.edit, in.status), "cleanup")

run_cvs_release ==
    /\ pc = "release"
    /\ ~options.release /\ options.cvs_release
    /\ \E in \in ReleaseInputs :
          Continue(_cvs_release(Current, in.answer, in.edit, in.status), "cleanup")

run_koji_release ==
    /\ pc = "release"
    /\ ~options.release /\ ~options.cvs_release /\ options.koji_release
    /\ \E outcomes \in KojiOutcomes :
          Continue(_koji_release(Current, outcomes), "cleanup")

run_no_release ==
    /\ pc = "release"
    /\ ~options.release /\ ~options.cvs_release /\ ~options.koji_release
    /\ ~options.git_release /\ ~options.list_tags
    /\ Continue(Current, "cleanup")

run_cleanup ==
    /\ pc = "cleanup"
    /\ Continue(cleanup(Current), "done")

Next ==
    \/ run_tgz
    \/ run_srpm
    \/ run_rpm
    \/ run_release
    \/ run_cvs_release
    \/ run_koji_release
    \/ run_no_release
    \/ run_cleanup

\* A builder constructed for the options, the configuration and the outside given.
Setup(variant, opts, cfg, e) ==
    /\ config = cfg
    /\ options = opts
    /\ env = e
    /\ self = __init__(variant, opts).self
    /\ world = __init__(variant, opts).world
    /\ ret = <<>>

Stages == [tgz : BOOLEAN, srpm : BOOLEAN, rpm : BOOLEAN]
Releases == {"", "release", "cvs_release", "koji_release"}

\* The tree and the module of the project the pipeline runs on.
ProjectTree == Tree({"pkg-1.0.tar.gz", "fix.patch"}, {})
ProjectModule(branches) == Module(branches, {"a.spec", "old.patch", "Makefile"}, {"CVS"})

\* The first n tags, without lists.
PlainTags(n) == [i \in 1..n |-> None]

\* Runs of the pipeline: any variant, stages and release target; either target
\* configured or not; the checkout directory clean or left over by an earlier
\* run, and the module holding every configured branch or lacking one.
InitRun ==
    \E variant \in Variants, stages \in Stages, rel \in Releases,
       test \in BOOLEAN, dry_run \in BOOLEAN,
       cvs \in BOOLEAN, koji \in BOOLEAN, checkout_dir \in {"clean", "stale", "missing"} :
        /\ cvs \/ koji
        /\ checkout_dir # "clean" => cvs
        /\ rel = "" => cvs /\ koji /\ ~dry_run
        /\ test => ~dry_run /\ checkout_dir = "clean"
        /\ Setup(variant,
                 Options(stages, rel, test, None, dry_run, <<>>),
                 Config(IF cvs THEN "F-1 F-2" ELSE None,
                        IF koji THEN "t1 t2" ELSE None,
                        PlainTags(MaxTags), PlainTags(MaxTags)),
                 Env(ProjectTree,
                     ProjectModule(IF checkout_dir = "missing" THEN {"F-1"}
                                   ELSE {"F-1", "F-2"}),
                     IF checkout_dir = "stale" THEN StaleCheckoutFs ELSE CleanFs))
        /\ pc = "run"

\* The lists of distinct tags autobuild_tags can hold.
RECURSIVE TagSeqs(_)
TagSeqs(n) ==
    IF n = 0 THEN {<<>>}
    ELSE {Append(t, KojiTagNames[i]) :
             t \in {u \in TagSeqs(n - 1) : Len(u) = n - 1}, i \in 1..MaxTags}
         \cup TagSeqs(n - 1)

AutobuildTags ==
    {join(" ", t) : t \in {u \in TagSeqs(MaxTags) :
                              /\ u # <<>>
                              /\ \A i, j \in 1..Len(u) : u[i] = u[j] => i = j}}

\* Koji releases: any tag list, and any whitelist and blacklist for each of its
\* tags; as they are, with an only_tags filter, with a dist option, or dry.
InitKoji ==
    \E variant \in {"Builder", "CvsBuilder"}, autobuild_tags \in AutobuildTags,
       whitelist \in [1..MaxTags -> ListValues], blacklist \in [1..MaxTags -> ListValues],
       mode \in {"plain", "only_tags", "dist", "dry_run"} :
        /\ \A i \in 1..MaxTags :
              ~contains(split(autobuild_tags, " "), KojiTagNames[i]) =>
                  whitelist[i] = None /\ blacklist[i] = None
        /\ variant = "CvsBuilder" => mode \in {"plain", "dist"}
        /\ Setup(variant,
                 Options([tgz |-> FALSE, srpm |-> FALSE, rpm |-> FALSE], "koji_release",
                         FALSE,
                         IF mode = "dist" THEN ".fc9" ELSE None,
                         mode = "dry_run",
                         IF mode = "only_tags" THEN <<"t1">> ELSE <<>>),
                 Config("F-1 F-2", autobuild_tags, whitelist, blacklist),
                 Env(ProjectTree, ProjectModule({"F-1", "F-2"}), CleanFs))
        /\ pc = "run"

\* Descriptors that name the upstream version: an older one, with a patch of
\* its own, and the version built.
UpstreamDescriptors ==
    {<<"%define upstreamversion 0.9", "Name: pkg", "Source0: pkg-0.9.tar.gz",
       "Patch0: old.patch", "%prep", "%setup -q", "%patch0 -p1", "%build">>,
     <<"%define upstreamversion 1.0", "Name: pkg", "Source0: pkg-1.0.tar.gz",
       "%prep", "%setup -q", "%build">>}

\* Upstream-derived builds: any stages, test or not, for a descriptor that names
\* the upstream version.
InitUpstream ==
    \E stages \in Stages, test \in BOOLEAN, descriptor \in UpstreamDescriptors :
        /\ Setup("UpstreamBuilder",
                 Options(stages, "", test, None, FALSE, <<>>),
                 Config("F-1 F-2", "t1 t2", PlainTags(MaxTags), PlainTags(MaxTags)),
                 Env([ProjectTree EXCEPT !["a.spec"] = descriptor],
                     ProjectModule({"F-1", "F-2"}), CleanFs))
        /\ pc = "run"

Init == InitRun \/ InitKoji \/ InitUpstream

Spec == Init /\ [][Next]_vars

(***************************************************************************)
(* Runs where an external command fails                                    *)
(***************************************************************************)
\* The commands that can give a non-zero status, by how they begin.
FailingCommands ==
    {"git archive", "LC_ALL=C rpmbuild", "sudo rpm", "cvs -d", "cvs add", "cvs rm",
     "make new-sources", "cvs commit", "BUILD_FLAGS=--nowait make build", "koji "}

\* Runs of the pipeline with auto-install, CVS and Koji configured, where the
\* commands of one kind fail.
InitFail ==
    \E variant \in Variants, rel \in Releases, failing \in FailingCommands,
       stage \in {"", "tgz", "srpm", "rpm"} :
        /\ Setup(variant,
                 [Options([tgz |-> stage = "tgz", srpm |-> stage = "srpm",
                           rpm |-> stage = "rpm"], rel, FALSE, None, FALSE, <<>>)
                     EXCEPT !.auto_install = TRUE],
                 Config("F-1 F-2", "t1 t2", PlainTags(MaxTags), PlainTags(MaxTags)),
                 [Env(ProjectTree, ProjectModule({"F-1", "F-2"}), CleanFs)
                     EXCEPT !.failing = failing])
        /\ pc = "run"

SpecFail == InitFail /\ [][Next]_vars

(***************************************************************************)
(* The file sync on its own: _list_files_to_copy and _sync_files for any    *)
(* exported tree and any contents of the branch synced into.                *)
(***************************************************************************)
\* What the top of the tree can hold besides the descriptor, and what the
\* branch can hold.
TreeFiles == {"b.patch", "Makefile", "notes.txt"}
TreeDirs == {"sub"}
BranchFiles == {"a.spec", "b.patch", "c.patch", "Makefile"}
BranchDirs == {".git"}

InitSync ==
    \E variant \in Variants,
       tree \in {t \in SUBSET (TreeFiles \cup TreeDirs) : Cardinality(t) <= MaxFiles},
       branch \in {d \in SUBSET (BranchFiles \cup BranchDirs) :
                      Cardinality(d \ {"a.spec"}) <= MaxFiles} :
        /\ Setup(variant,
                 Options([tgz |-> FALSE, srpm |-> FALSE, rpm |-> FALSE], "cvs_release",
                         FALSE, None, FALSE, <<>>),
                 Config("F-1", None, PlainTags(0), PlainTags(0)),
                 Env(Tree(tree \cap TreeFiles, tree \cap TreeDirs),
                     Module({"F-1"}, branch \cap BranchFiles, branch \cap BranchDirs),
                     CleanFs))
        /\ pc = "sync"

\* The export and the checkout, then the sync of the branch: the call, with what
\* the file system held before it, and what it returned.
sync(b) ==
    Do(_cvs_checkout_module(mkdir_cvs_workdir(tgz(b))), LAMBDA b1 :
    Do(_list_files_to_copy(b1), LAMBDA files_to_copy :
    Do(_sync_files(b1, files_to_copy, branch_dir("F-1")), LAMBDA r :
        [b |-> r.b,
         ret |-> [files_to_copy |-> files_to_copy,
                  dest_dir |-> branch_dir("F-1"),
                  before |-> b1.world.fs,
                  new_files |-> r.new_files,
                  copied_files |-> r.copied_files,
                  old_files |-> r.old_files]])))

sync_files ==
    /\ pc = "sync"
    /\ \E r \in {sync(Current)} :
          /\ self' = r.b.self
          /\ world' = r.b.world
          /\ ret' = r.ret
    /\ pc' = "synced"
    /\ UNCHANGED <<config, options, env>>

\* The export and the checkout, then _cvs_sync_files for the branch, with what
\* the file system held before it.
cvs_sync_files ==
    /\ pc = "sync"
    /\ \E b1 \in {_cvs_checkout_module(mkdir_cvs_workdir(tgz(Current)))} :
       \E b \in {_cvs_sync_files(b1)} :
          /\ self' = b.self
          /\ world' = b.world
          /\ ret' = [files_to_copy |-> _list_files_to_copy(b1),
                     dest_dir |-> branch_dir("F-1"),
                     before |-> b1.world.fs]
    /\ pc' = "cvs_synced"
    /\ UNCHANGED <<config, options, env>>

\* The same with _git_sync_files, for a checkout that holds what the branch holds.
git_sync_files ==
    /\ pc = "sync"
    /\ \E b1 \in {_cvs_checkout_module(mkdir_cvs_workdir(tgz(Current)))} :
       \E b \in {_git_sync_files(b1, branch_dir("F-1"))} :
          /\ self' = b.self
          /\ world' = b.world
          /\ ret' = [files_to_copy |-> _list_files_to_copy(b1),
                     dest_dir |-> branch_dir("F-1"),
                     before |-> b1.world.fs]
    /\ pc' = "git_synced"
    /\ UNCHANGED <<config, options, env>>

NextSync == sync_files \/ cvs_sync_files \/ git_sync_files

SpecSync == InitSync /\ [][NextSync]_vars

(***************************************************************************)
(* Runs that keep their files, and runs that find files of an earlier run  *)
(***************************************************************************)
\* The build directory holding what an earlier run of the same commit left: its
\* exported tree, with an archive the project no longer has.
LeftoverFs ==
    Map({<<rpmbuild_basedir, Dir>>, <<rpmbuild_dir, Dir>>, <<rpmbuild_sourcedir, Dir>>,
         <<path_join(rpmbuild_sourcedir, "pkg-1.0"), Dir>>,
         <<path_join(path_join(rpmbuild_sourcedir, "pkg-1.0"), "stale.tar"),
           <<"stale">>>>})

\* Runs of the pipeline with CVS and Koji configured: any variant and release
\* target, one stage at most, with or without no_cleanup, in a clean build
\* directory or in one an earlier run has left its files in.
InitWorkspace ==
    \E variant \in Variants, rel \in Releases, stage \in {"", "tgz", "srpm", "rpm"},
       no_cleanup \in BOOLEAN, leftover \in BOOLEAN :
        /\ Setup(variant,
                 [Options([tgz |-> stage = "tgz", srpm |-> stage = "srpm",
                           rpm |-> stage = "rpm"], rel, FALSE, None, FALSE, <<>>)
                     EXCEPT !.no_cleanup = no_cleanup],
                 Config("F-1 F-2", "t1 t2", PlainTags(MaxTags), PlainTags(MaxTags)),
                 Env(ProjectTree, ProjectModule({"F-1", "F-2"}),
                     IF leftover THEN LeftoverFs ELSE CleanFs))
        /\ pc = "run"

SpecWorkspace == InitWorkspace /\ [][Next]_vars

(***************************************************************************)
(* _get_display_version on its own, for any version                        *)
(***************************************************************************)
\* Versions of the project as its tags give them (version-release), commits and
\* commit counts.
BuildVersions == {"1.0-1", "1.0", "2.1-3.fc12", "1.0-1-2", "git-3.c0ffee1", "git-1"}
Commits == {"c0ffee12", "c0ffee1", "deadbeef00"}
CommitCounts == {"0", "3", "12"}

\* A builder, and the version it is asked to display.
InitVersion ==
    \E version \in BuildVersions, test \in BOOLEAN, latest_commit \in Commits,
       commit_count \in CommitCounts :
        /\ config = Config(None, None, PlainTags(0), PlainTags(0))
        /\ options = Options([tgz |-> FALSE, srpm |-> FALSE, rpm |-> FALSE], "",
                             test, None, FALSE, <<>>)
        /\ env = [Env(ProjectTree, ProjectModule({}), CleanFs)
                    EXCEPT !.latest_commit = latest_commit,
                           !.commit_count = commit_count]
        /\ \E b \in {__init__("Builder", options)} : self = b.self /\ world = b.world
        /\ ret = [build_version |-> version]
        /\ pc = "display"

\* The call, with what it returned.
display_version ==
    /\ pc = "display"
    /\ ret' = [build_version |-> ret.build_version,
               version |-> _get_display_version(ret.build_version, self.test,
                                                env.latest_commit, env.commit_count)]
    /\ pc' = "displayed"
    /\ UNCHANGED <<self, world, config, options, env>>

NextVersion == display_version

SpecVersion == InitVersion /\ [][NextVersion]_vars

(***************************************************************************)
(* _list_tags and _koji_release for the same configuration                 *)
(***************************************************************************)
\* A builder for any tag list, and any whitelist and blacklist for each of its
\* tags, with no only_tags filter.
InitTags ==
    \E autobuild_tags \in AutobuildTags,
       whitelist \in [1..MaxTags -> ListValues], blacklist \in [1..MaxTags -> ListValues] :
        /\ \A i \in 1..MaxTags :
              ~contains(split(autobuild_tags, " "), KojiTagNames[i]) =>
                  whitelist[i] = None /\ blacklist[i] = None
        /\ Setup("Builder",
                 Options([tgz |-> FALSE, srpm |-> FALSE, rpm |-> FALSE], "koji_release",
                         FALSE, None, FALSE, <<>>),
                 Config("F-1 F-2", autobuild_tags, whitelist, blacklist),
                 Env(ProjectTree, ProjectModule({"F-1", "F-2"}), CleanFs))
        /\ pc = "run"

\* The call of _list_tags, with what it printed.
list_tags ==
    /\ pc = "run"
    /\ \E debug \in BOOLEAN :
       \E r \in {_list_tags(run_start(Current), debug)} :
          /\ self' = r.b.self
          /\ world' = r.b.world
          /\ ret' = [debug |-> debug, printed |-> r.printed]
    /\ pc' = "listed"
    /\ UNCHANGED <<config, options, env>>

\* The call of _koji_release, every build succeeding.
koji_release_tags ==
    /\ pc = "run"
    /\ Continue(_koji_release(run_start(Current), [i \in 1..MaxTags |-> "ok"]), "released")

NextTags == list_tags \/ koji_release_tags

SpecTags == InitTags /\ [][NextTags]_vars

(***************************************************************************)
(* The binary-package stage with auto-install                              *)
(***************************************************************************)
\* What NO_AUTO_INSTALL can be in the user's configuration: None when absent.
NoAutoInstall == {None, "debuginfo", "x86_64", "other", "debuginfo other"}

\* Runs of the binary-package stage, with and without auto-install, for any
\* NO_AUTO_INSTALL.
InitInstall ==
    \E variant \in Variants \ {"CvsBuilder"}, auto_install \in BOOLEAN,
       no_auto_install \in NoAutoInstall, test \in BOOLEAN :
        /\ Setup(variant,
                 [Options([tgz |-> FALSE, srpm |-> FALSE, rpm |-> TRUE], "", test, None,
                          FALSE, <<>>)
                     EXCEPT !.auto_install = auto_install],
                 Config("F-1 F-2", "t1 t2", PlainTags(MaxTags), PlainTags(MaxTags)),
                 [Env(ProjectTree, ProjectModule({"F-1", "F-2"}), CleanFs)
                     EXCEPT !.user_config =
                        Map({<<"NO_AUTO_INSTALL", v>> : v \in {no_auto_install} \ {None}})])
        /\ pc = "rpm"

\* The binary-package stage of run(), the build writing one binary package, two,
\* or none.
rpm_install ==
    /\ pc = "rpm"
    /\ \E outcome \in BuildOutcomes \cup {"debuginfo"} :
          Continue(_rpm(run_start(Current), outcome), "release")

NextInstall == rpm_install

SpecInstall == InitInstall /\ [][NextInstall]_vars

(***************************************************************************)
(* run() for any combination of its flags                                  *)
(***************************************************************************)
\* The release flags of the options, any number of them set.
ReleaseFlags ==
    [release : BOOLEAN, cvs_release : BOOLEAN, koji_release : BOOLEAN,
     git_release : BOOLEAN, list_tags : BOOLEAN]

\* Runs of a Builder with CVS and Koji configured, for any stages and any
\* release flags.
InitOrder ==
    \E stages \in Stages, flags \in ReleaseFlags :
        /\ Setup("Builder",
                 [Options(stages, "", FALSE, None, FALSE, <<>>)
                     EXCEPT !.release = flags.release,
                            !.cvs_release = flags.cvs_release,
                            !.koji_release = flags.koji_release,
                            !.git_release = flags.git_release,
                            !.list_tags = flags.list_tags],
                 Config("F-1 F-2", "t1 t2", PlainTags(MaxTags), PlainTags(MaxTags)),
                 Env(ProjectTree, ProjectModule({"F-1", "F-2"}), CleanFs))
        /\ pc = "run"

run_git_release ==
    /\ pc = "release"
    /\ ~options.release /\ ~options.cvs_release /\ ~options.koji_release
    /\ options.git_release
    /\ \E answer \in {"n", "yes"} : Continue(_git_release(Current, answer), "cleanup")

run_list_tags ==
    /\ pc = "release"
    /\ ~options.release /\ ~options.cvs_release /\ ~options.koji_release
    /\ ~options.git_release /\ options.list_tags
    /\ \E debug \in BOOLEAN :
       \E r \in {_list_tags(Current, debug)} :
          /\ self' = r.b.self
          /\ world' = r.b.world
          /\ ret' = [debug |-> debug, printed |-> r.printed]
          /\ pc' = IF Exited(r.b) THEN "exit" ELSE "cleanup"
    /\ UNCHANGED <<config, options, env>>

NextOrder ==
    \/ run_tgz
    \/ run_srpm
    \/ run_rpm
    \/ run_release
    \/ run_cvs_release
    \/ run_koji_release
    \/ run_git_release
    \/ run_list_tags
    \/ run_no_release
    \/ run_cleanup

SpecOrder == InitOrder /\ [][NextOrder]_vars

(***************************************************************************)
(* Upstream-derived builds that are released                               *)
(***************************************************************************)
\* Runs of an UpstreamBuilder for any stages and release target, test or not,
\* for a descriptor that names the upstream version.
InitRepatch ==
    \E stages \in Stages, rel \in Releases, test \in BOOLEAN,
       descriptor \in UpstreamDescriptors :
        /\ Setup("UpstreamBuilder",
                 Options(stages, rel, test, None, FALSE, <<>>),
                 Config("F-1 F-2", "t1 t2", PlainTags(MaxTags), PlainTags(MaxTags)),
                 Env([ProjectTree EXCEPT !["a.spec"] = descriptor],
                     ProjectModule({"F-1", "F-2"}), CleanFs))
        /\ pc = "run"

SpecRepatch == InitRepatch /\ [][Next]_vars

(***************************************************************************)
(* NoTgzBuilder.tgz on its own, for any files at the top of the tree       *)
(***************************************************************************)
\* Largest number of files besides the descriptor at the top of the tree scanned
\* for sources.
MaxSources == 3

\* What the top of the tree can hold: archives of each kind, and other files.
SourceNames ==
    {"pkg-1.0.tar.gz", "lib.tar", "data.zip", "app.jar", "x.gem",
     "notes.tar.bz2", "tar.gz.txt", "fix.patch"}

InitSources ==
    \E variant \in {"NoTgzBuilder", "CvsBuilder"},
       names \in {t \in SUBSET SourceNames : Cardinality(t) <= MaxSources} :
        /\ Setup(variant,
                 Options([tgz |-> TRUE, srpm |-> FALSE, rpm |-> FALSE], "",
                         FALSE, None, FALSE, <<>>),
                 Config("F-1", None, PlainTags(0), PlainTags(0)),
                 Env(Tree(names, {}), Module({"F-1"}, {}, {}), CleanFs))
        /\ pc = "tgz"

\* The archive stage of run().
adopt_sources ==
    /\ pc = "tgz"
    /\ Continue(tgz(run_start(Current)), "srpm")

NextSources == adopt_sources

SpecSources == InitSources /\ [][NextSources]_vars

(***************************************************************************)
(* _find_wrote_in_rpmbuild_output on its own, for any output of a few lines *)
(***************************************************************************)
\* Largest number of lines in the output parsed.
MaxLines == 3

\* The lines the output of the build tool is made of.
OutputLines ==
    {"Wrote: /b/pkg-1.0-1.src.rpm", "Wrote: /b/pkg-1.0-1.x86_64.rpm",
     "Executing(%prep)", " Wrote: /b/pkg-1.0-1.noarch.rpm", "Wrote:", ""}

\* A builder before its run, and the output to parse.
InitWrote ==
    \E lines \in UNION {[1..n -> OutputLines] : n \in 0..MaxLines} :
        /\ config = Config(None, None, PlainTags(0), PlainTags(0))
        /\ options = Options([tgz |-> FALSE, srpm |-> FALSE, rpm |-> FALSE], "",
                             FALSE, None, FALSE, <<>>)
        /\ env = Env(ProjectTree, ProjectModule({}), CleanFs)
        /\ \E b \in {__init__("Builder", options)} : self = b.self /\ world = b.world
        /\ ret = [lines |-> lines, output |-> join("\n", lines)]
        /\ pc = "parse"

\* The call, with what it returned.
find_wrote ==
    /\ pc = "parse"
    /\ \E r \in {_find_wrote_in_rpmbuild_output(Current, ret.output)} :
          /\ self' = r.b.self
          /\ world' = r.b.world
          /\ ret' = [lines |-> ret.lines, output |-> ret.output, paths |-> r.paths]
    /\ pc' = "parsed"
    /\ UNCHANGED <<config, options, env>>

NextWrote == find_wrote

SpecWrote == InitWrote /\ [][NextWrote]_vars

(***************************************************************************)
(* _patch_upstream on its own, for any descriptor of a few lines           *)
(***************************************************************************)
\* Largest number of lines in the descriptor scanned.
MaxSpecLines == 4

\* The lines the descriptor is made of.
SpecLines ==
    {"Name: pkg", "Source0: pkg-1.0.tar.gz", "Patch1: a.patch", "Patch3: c.patch",
     "%prep", "%setup -q"}

\* An UpstreamBuilder whose descriptor is in place, as tgz() leaves it for
\* patch_upstream().
InitPatch ==
    \E lines \in UNION {[1..n -> SpecLines] : n \in 0..MaxSpecLines} :
        /\ config = Config(None, None, PlainTags(0), PlainTags(0))
        /\ options = Options([tgz |-> FALSE, srpm |-> FALSE, rpm |-> FALSE], "",
                             FALSE, None, FALSE, <<>>)
        /\ env = Env(ProjectTree, ProjectModule({}), CleanFs)
        /\ \E b \in {__init__("UpstreamBuilder", options)} :
              /\ self = [b.self EXCEPT !.spec_file_name = "a.spec",
                                       !.spec_file = path_join(rpmbuild_sourcedir, "a.spec"),
                                       !.upstream_version = "0.9",
                                       !.upstream_tag = "pkg-0.9-1"]
              /\ world = [b.world EXCEPT !.fs =
                              write(mkdir_p(@, {rpmbuild_dir, rpmbuild_sourcedir}),
                                    path_join(rpmbuild_sourcedir, "a.spec"), lines)]
        /\ ret = [lines |-> lines]
        /\ pc = "scan"

\* The call, with what it returned.
scan_spec ==
    /\ pc = "scan"
    /\ \E r \in {_patch_upstream(Current)} :
          /\ self' = r.b.self
          /\ world' = r.b.world
          /\ ret' = [lines |-> r.lines,
                     patch_number |-> r.patch_number,
                     patch_insert_index |-> r.patch_insert_index,
                     patch_apply_index |-> r.patch_apply_index]
    /\ pc' = "scanned"
    /\ UNCHANGED <<config, options, env>>

\* patch_upstream, with the descriptor it wrote.
insert_patch ==
    /\ pc = "scan"
    /\ \E b \in {patch_upstream(Current)} :
          /\ self' = b.self
          /\ world' = b.world
          /\ ret' = [lines |-> ret.lines,
                     written |-> readlines(b.world.fs, b.self.spec_file)]
    /\ pc' = "patched"
    /\ UNCHANGED <<config, options, env>>

NextPatch == scan_spec \/ insert_patch

SpecPatch == InitPatch /\ [][NextPatch]_vars

(***************************************************************************)
(* Properties                                                              *)
(***************************************************************************)
\* The elements of a list.
Names(list) == {list[i] : i \in DOMAIN list}

\* The commands that unpack an exported archive, one for each export.
Exports == RanCmd(world, "cd " \o rpmbuild_sourcedir \o "/ && tar xzf ")

\* C1: within one run the source export (archive creation plus unpacking) is
\* performed at most once, whatever stages and release target are selected, and
\* no source is listed twice.
C1_ExportOnce ==
    /\ Cardinality(Exports) <= 1
    /\ \A i, j \in DOMAIN self.sources : self.sources[i] = self.sources[j] => i = j

\* The runs of the test-setup-specfile helper.
SetupTestSpecfileRuns == RanCmd(world, "test-setup-specfile.pl ")

\* C2: the test-setup-specfile helper runs at most once in a run, and only when
\* test is true, for every builder variant.
C2_SetupTestSpecfileOnce ==
    /\ Cardinality(SetupTestSpecfileRuns) <= 1
    /\ SetupTestSpecfileRuns # {} => options.test

\* The names of the canonical files of the sync, and those of them the
\* destination held before.
CanonicalNames == {basename(f) : f \in Names(ret.files_to_copy)}
HeldBefore == {n \in CanonicalNames : exists(ret.before, path_join(ret.dest_dir, n))}

\* C3: _sync_files copies every canonical file into the destination and reports
\* as new those whose destination path did not exist before, as updated those
\* whose destination path did.
C3_NewOrUpdated ==
    pc = "synced" =>
        /\ \A n \in CanonicalNames : exists(world.fs, path_join(ret.dest_dir, n))
        /\ Names(ret.new_files) = CanonicalNames \ HeldBefore
        /\ Names(ret.copied_files) = HeldBefore

\* C4: the obsolete list of _sync_files is exactly the entries of the destination
\* that are neither canonical nor protected; a protected name is never reported
\* obsolete, and a protected entry of the destination is left as it was, neither
\* overwritten nor created from the exported tree.
C4_ObsoleteAndProtected ==
    pc = "synced" =>
        /\ Names(ret.old_files) =
              {n \in listdir(ret.before, ret.dest_dir) :
                  n \notin CanonicalNames /\ n \notin PROTECTED_BUILD_SYS_FILES}
        /\ \A i, j \in DOMAIN ret.old_files : ret.old_files[i] = ret.old_files[j] => i = j
        /\ \A n \in PROTECTED_BUILD_SYS_FILES :
              /\ n \notin Names(ret.old_files)
              /\ exists(world.fs, path_join(ret.dest_dir, n))
                    = exists(ret.before, path_join(ret.dest_dir, n))
              /\ exists(ret.before, path_join(ret.dest_dir, n)) =>
                    world.fs[path_join(ret.dest_dir, n)]
                        = ret.before[path_join(ret.dest_dir, n)]

\* A sync of every file of a tree holding a Makefile, into a branch holding its
\* own Makefile and an obsolete file.
C4_Witness ==
    /\ pc = "synced"
    /\ self.cvs_copy_extensions = <<"">>
    /\ "Makefile" \in DOMAIN env.tree
    /\ exists(ret.before, path_join(ret.dest_dir, "Makefile"))
    /\ ret.old_files # <<>>

\* The Koji release has gone through every configured tag.
KojiReleaseDone ==
    /\ pc \in {"cleanup", "done"}
    /\ options.release \/ (~options.cvs_release /\ options.koji_release)
    /\ "koji" \in DOMAIN config

\* The tags configured, those the only_tags filter lets through, and those of
\* them the whitelist (alone, when there is one) or the blacklist allows.
ConfiguredTags == Names(split(strip(config["koji"]["autobuild_tags"]), " "))
Unfiltered == {t \in ConfiguredTags : options.only_tags = <<>> \/ t \in Names(options.only_tags)}
Listed(t, list) ==
    list \in DOMAIN config[t] /\ project_name \in Names(split(strip(config[t][list]), " "))
Eligible ==
    {t \in Unfiltered :
        IF "whitelist" \in DOMAIN config[t] THEN Listed(t, "whitelist")
        ELSE ~Listed(t, "blacklist")}

\* The submissions of a build for the tag, executed or only logged.
Submissions(t) ==
    {i \in DOMAIN world.trace :
        startswith(world.trace[i].cmd, "koji " \o DEFAULT_KOJI_OPTS \o " " \o t \o " ")}

\* C5: in a Koji release a build is submitted for a tag the only_tags filter
\* lets through if and only if the tag has a whitelist naming the project, or has
\* no whitelist and no blacklist naming it.
C5_SubmittedIffEligible ==
    KojiReleaseDone => \A t \in Unfiltered : (Submissions(t) # {}) <=> (t \in Eligible)

\* A release where a tag with the project in both lists was submitted to, and
\* another tag was not.
C5_Witness ==
    /\ KojiReleaseDone
    /\ \E t \in Unfiltered :
          Listed(t, "whitelist") /\ Listed(t, "blacklist") /\ Submissions(t) # {}
    /\ \E t \in Unfiltered : Submissions(t) = {}

\* The command at position i of the trace built, as the last thing done, a source
\* package with dist d.
BuiltJustBefore(i, d) ==
    IF self.variant = "CvsBuilder"
    THEN /\ i > 2
         /\ world.trace[i - 2].cmd = "make DIST=" \o d \o " test-srpm"
         /\ world.trace[i - 2].ran
         /\ world.trace[i - 1].ran
         /\ startswith(world.trace[i - 1].cmd, "mv ")
         /\ endswith(world.trace[i - 1].cmd,
                     basename(package_path(rpmbuild_basedir, d, "src")) \o " "
                     \o rpmbuild_basedir)
    ELSE /\ i > 1
         /\ world.trace[i - 1].ran
         /\ startswith(world.trace[i - 1].cmd, "LC_ALL=C rpmbuild ")
         /\ endswith(world.trace[i - 1].cmd,
                     " --define 'dist " \o d \o "' --nodeps -bs " \o self.spec_file)

\* Every submission follows at once a build of a source package with the dist
\* Dist gives for its tag, and submits the package of that build.
SubmitsFreshPackage(Dist(_)) ==
    \A t \in ConfiguredTags : \A i \in Submissions(t) :
        /\ BuiltJustBefore(i, Dist(t))
        /\ split(world.trace[i].cmd, " ")[5] = package_path(rpmbuild_basedir, Dist(t), "src")

\* C6 as stated: for each eligible tag a source package is built with the tag's
\* configured disttag, and the path submitted is the one that build produced.
C6_TagDisttag ==
    "koji" \in DOMAIN config => SubmitsFreshPackage(LAMBDA t : config[t]["disttag"])

\* C6: for each eligible tag a source package is built with the dist option when
\* one is given, with the tag's configured disttag otherwise, and the path
\* submitted is the one that build produced.
C6_DistOptionOrTagDisttag ==
    "koji" \in DOMAIN config =>
        SubmitsFreshPackage(LAMBDA t : IF options.dist # None THEN options.dist
                                       ELSE config[t]["disttag"])

\* A release with a dist option that submitted to two tags.
C6_Witness ==
    /\ KojiReleaseDone
    /\ options.dist # None
    /\ Cardinality({t \in ConfiguredTags : Submissions(t) # {}}) = 2

\* C7: in dry-run mode no build-submission command is executed, and when the
\* Koji release is done the submission for every eligible tag has been logged.
C7_DryRunKoji ==
    options.dry_run =>
        /\ RanCmd(world, "koji ") = {}
        /\ KojiReleaseDone =>
              \A t \in Eligible : \E i \in Submissions(t) : ~world.trace[i].ran

\* A dry-run Koji release done, with the submissions for two tags logged.
C7_Witness ==
    /\ options.dry_run
    /\ KojiReleaseDone
    /\ Cardinality(LoggedCmd(world, "koji ")) = 2

\* The CVS release has gone through all its steps.
CvsReleaseDone ==
    /\ pc \in {"cleanup", "done"}
    /\ (options.release /\ _can_build_in_cvs) \/ (~options.release /\ options.cvs_release)

\* C8: in dry-run mode none of make new-sources, cvs commit, make tag and
\* make build is executed, and when the CVS release is done each of them has
\* been logged (the upload when there are sources).
C8_DryRunCvs ==
    options.dry_run =>
        /\ RanCmd(world, "make new-sources") = {}
        /\ RanCmd(world, "cvs commit") = {}
        /\ RanCmd(world, "make tag") = {}
        /\ RanCmd(world, "BUILD_FLAGS=--nowait make build") = {}
        /\ CvsReleaseDone =>
              /\ self.sources # <<>> => LoggedCmd(world, "make new-sources") # {}
              /\ LoggedCmd(world, "cvs commit") # {}
              /\ LoggedCmd(world, "make tag") # {}
              /\ LoggedCmd(world, "BUILD_FLAGS=--nowait make build") # {}

\* A dry-run CVS release done, with sources to upload.
C8_Witness ==
    /\ options.dry_run
    /\ CvsReleaseDone
    /\ options.cvs_release
    /\ LoggedCmd(world, "make new-sources") # {}
    /\ LoggedCmd(world, "BUILD_FLAGS=--nowait make build") # {}

\* The checkouts of the CVS module.
Checkouts == RanCmd(world, "cvs -d ")

\* C9: when the checkout directory of the project exists before the run, the
\* module is never checked out, on any path.
C9_StaleCheckoutIsFatal ==
    exists(env.fs, cvs_package_workdir) => Checkouts = {}

\* A configured branch is not in the CVS module.
MissingBranch ==
    /\ "cvs" \in DOMAIN config
    /\ \E br \in Names(split(config["cvs"]["branches"], " ")) : br \notin DOMAIN env.module

\* C10: when a configured branch is missing from the module checked out, the
\* checkout is the last command of the run, which has failed: no export, sync,
\* upload, commit, tag or build follows it.
C10_MissingBranchIsFatal ==
    MissingBranch =>
        \A i \in Checkouts : i = Len(world.trace) /\ world.exit = "1" /\ pc = "exit"

\* A CVS release that checked out a module lacking a branch, after an archive
\* stage.
C10_Witness ==
    /\ MissingBranch
    /\ options.cvs_release
    /\ options.tgz
    /\ Checkouts # {}

\* cleanup() was the last thing the process did: its two commands end the trace
\* and the workspace of the run is gone.
CleanupRan ==
    /\ Len(world.trace) >= 2
    /\ world.trace[Len(world.trace) - 1].cmd = "rm -rf " \o rpmbuild_dir
    /\ world.trace[Len(world.trace)].cmd = "rm -rf " \o cvs_package_workdir
    /\ ~exists(world.fs, rpmbuild_dir)

\* C11: a process that terminated on a fatal condition ran cleanup() first, unless
\* no_cleanup is set: no workspace of the run remains.
C11_CleanupOnFatal ==
    world.exit # None /\ ~self.no_cleanup => CleanupRan

\* The user declined the commit confirmation.
Declined == \E i \in DOMAIN world.answers : ~said_yes(world.answers[i])

\* C13: when the user declines the commit confirmation of a CVS release,
\* cleanup() runs, the process exits with status 1, and no commit, tag or build
\* command is executed for any branch.
C13_DeclineAborts ==
    Declined =>
        /\ world.exit = "1"
        /\ pc = "exit"
        /\ self.no_cleanup \/ CleanupRan
        /\ RanCmd(world, "cvs commit") = {}
        /\ RanCmd(world, "make tag") = {}
        /\ RanCmd(world, "BUILD_FLAGS=--nowait make build") = {}

\* A CVS release over two branches that the user declined, after files were
\* synced into the checkout.
C13_Witness ==
    /\ Declined
    /\ Len(self.cvs_branches) = 2
    /\ RanCmd(world, "cvs add") # {}
    /\ pc = "exit"

\* C12: no failure of an external command is ignored: after a command that gave
\* a non-zero status the process exits, and runs nothing more but the commands
\* of cleanup().
C12_NoFailureIgnored ==
    \A i \in Ran(world) :
        world.trace[i].status # 0 =>
            /\ pc = "exit"
            /\ \A j \in Ran(world) : j > i => startswith(world.trace[j].cmd, "rm -rf ")

\* The runs of the build tool: rpmbuild, and for CvsBuilder the make targets of
\* the source package and of the binary package.
BuildRuns ==
    {i \in Ran(world) :
        \/ startswith(world.trace[i].cmd, "LC_ALL=C rpmbuild ")
        \/ /\ startswith(world.trace[i].cmd, "make ")
           /\ \/ endswith(world.trace[i].cmd, " test-srpm")
              \/ endswith(world.trace[i].cmd, " x86_64")}

\* The lines of out that begin with "Wrote: ".
WroteLines(out) ==
    SelectSeq(split(out, "\n"),
              LAMBDA line : Len(line) >= 7 /\ SubSeq(line, 1, 7) = "Wrote: ")

\* C14: for every builder variant, build-tool output without a "Wrote:" line is
\* fatal to the stage that ran the tool: the process has exited.
C14_NoWroteIsFatal ==
    \A i \in BuildRuns :
        WroteLines(world.trace[i].out) = <<>> => world.exit # None /\ pc = "exit"

\* The positions of the lines that begin with "Wrote: " in the output parsed.
WrotePositions ==
    {i \in DOMAIN ret.lines :
        Len(ret.lines[i]) >= 7 /\ SubSeq(ret.lines[i], 1, 7) = "Wrote: "}

\* C15: _find_wrote_in_rpmbuild_output returns, in order of appearance, what
\* follows "Wrote: " in each line that begins with it, and nothing for another
\* line; it fails when no line begins with it, and only then.
C15_FindWrote ==
    pc = "parsed" =>
        /\ Len(ret.paths) = Cardinality(WrotePositions)
        /\ \A i \in WrotePositions :
              "Wrote: " \o ret.paths[Cardinality({j \in WrotePositions : j <= i})]
                  = ret.lines[i]
        /\ (world.exit = "1") <=> (WrotePositions = {})
        /\ world.exit \in {None, "1"}

\* An output parsed where a line that is not a "Wrote: " line stands between
\* two that are, and one parsed where there is text before "Wrote: ".
C15_Witness ==
    /\ pc = "parsed"
    /\ WrotePositions = {1, 3}
    /\ ret.lines[2] = " Wrote: /b/pkg-1.0-1.noarch.rpm"
    /\ ret.paths = <<"/b/pkg-1.0-1.src.rpm", "/b/pkg-1.0-1.x86_64.rpm">>

\* The runs of rpmbuild that build the binary packages.
RpmRuns ==
    {i \in Ran(world) :
        /\ startswith(world.trace[i].cmd, "LC_ALL=C rpmbuild ")
        /\ instr(" --clean -ba ", world.trace[i].cmd)}

\* The paths a build tool's output reports written, in output order.
WrotePaths(out) ==
    [k \in 1..Len(WroteLines(out)) |->
        SubSeq(WroteLines(out)[k], 8, Len(WroteLines(out)[k]))]

\* C16: Builder._rpm (every variant but CvsBuilder, which has its own) fails with
\* status 1 after rpmbuild unless the output has two "Wrote:" lines or more, and
\* then records none of the paths; when it succeeds the first path is the source-package
\* location and all the paths are appended to the artifact list, in output
\* order.
C16_RpmNeedsTwoWrote ==
    [][(pc = "rpm" /\ RpmRuns' # {}) =>
          \A i \in RpmRuns' :
              LET paths == WrotePaths(world'.trace[i].out)
              IN  IF Len(paths) < 2
                  THEN /\ world'.exit = "1"
                       /\ pc' = "exit"
                       /\ self'.srpm_location = self.srpm_location
                       /\ \A k \in DOMAIN paths :
                             paths[k] \in Names(self'.artifacts) =>
                                 paths[k] \in Names(self.artifacts)
                  ELSE /\ world'.exit = None
                       /\ pc' = "release"
                       /\ self'.srpm_location = paths[1]
                       /\ Len(self'.artifacts) >= Len(self.artifacts) + Len(paths)
                       /\ SubSeq(self'.artifacts, 1, Len(self.artifacts)) = self.artifacts
                       /\ SubSeq(self'.artifacts, Len(self'.artifacts) - Len(paths) + 1,
                                 Len(self'.artifacts)) = paths]_vars

\* A binary-package stage that succeeded after a source-package stage: the
\* artifact list holds the archive, the source package, and the two packages of
\* the binary build.
C16_Witness ==
    /\ pc = "release"
    /\ RpmRuns # {}
    /\ Len(self.artifacts) = 4
    /\ self.artifacts[3] = self.srpm_location
    /\ self.artifacts[4] = package_path(rpmbuild_basedir, system_dist, "x86_64")

\* The index N of each PatchN directive line a descriptor is made of.
PatchIndex == Map({<<"Patch1: a.patch", 1>>, <<"Patch3: c.patch", 3>>})

\* The positions of the Patch directives, of the Source and Patch directives,
\* and of the %prep and %setup markers in the descriptor scanned.
PatchPositions == {i \in DOMAIN ret.lines : ret.lines[i] \in DOMAIN PatchIndex}
DirectivePositions ==
    PatchPositions \cup {i \in DOMAIN ret.lines : ret.lines[i] = "Source0: pkg-1.0.tar.gz"}
MarkerPositions == {i \in DOMAIN ret.lines : ret.lines[i] \in {"%prep", "%setup -q"}}

\* C17: the patch number is the largest index among the PatchN directives plus
\* one, 0 when there is no Patch directive, whatever the order of the directives.
C17_PatchNumberIsMaxPlusOne ==
    pc = "scanned" /\ world.exit = None =>
        ret.patch_number =
            IF PatchPositions = {} THEN 0
            ELSE 1 + CHOOSE m \in {PatchIndex[ret.lines[i]] : i \in PatchPositions} :
                        \A i \in PatchPositions : PatchIndex[ret.lines[i]] <= m

\* C18: for a descriptor holding the directives Source0 and Patch3, in either
\* order, followed by %prep, the patch number is 4 and the apply index is
\* greater than the insert index.
C18_Source0Patch3Prep ==
    (/\ pc = "scanned"
     /\ \E s, p \in DOMAIN ret.lines :
           /\ ret.lines[s] = "Source0: pkg-1.0.tar.gz"
           /\ ret.lines[p] = "Patch3: c.patch"
           /\ DirectivePositions = {s, p}
           /\ \E m \in MarkerPositions :
                 /\ ret.lines[m] = "%prep"
                 /\ \A k \in MarkerPositions : m <= k
                 /\ s < m /\ p < m)
    => /\ world.exit = None
       /\ ret.patch_number = 4
       /\ ret.patch_apply_index > ret.patch_insert_index

\* The scan of a descriptor with Patch3 before Source0, both right before %prep.
C18_Witness ==
    /\ pc = "scanned"
    /\ ret.lines = <<"Name: pkg", "Patch3: c.patch", "Source0: pkg-1.0.tar.gz", "%prep">>
    /\ ret.patch_number = 4
    /\ ret.patch_insert_index = 3
    /\ ret.patch_apply_index = 5

\* C19: the computation fails if and only if the descriptor has no Source or
\* Patch directive line or has no %prep or %setup line; it succeeds with both
\* kinds, wherever they are, the first line included.
C19_FailsIffAnchorMissing ==
    pc = "scanned" =>
        /\ (world.exit = "1") <=> (DirectivePositions = {} \/ MarkerPositions = {})
        /\ world.exit \in {None, "1"}

\* A scan that succeeded with a directive on the first line of the descriptor.
C19_Witness ==
    /\ pc = "scanned"
    /\ world.exit = None
    /\ 1 \in DirectivePositions
    /\ ret.patch_insert_index = 1

\* The patches generated: the .patch files in the sources directory of the run.
GeneratedPatches ==
    {n \in listdir(world.fs, rpmbuild_sourcedir) :
        Len(n) > 6 /\ SubSeq(n, Len(n) - 5, Len(n)) = ".patch"}

\* The list without its elements at positions i and j.
Without(list, i, j) ==
    [k \in 1..(Len(list) - 2) |->
        IF k < i THEN list[k] ELSE IF k + 1 < j THEN list[k + 1] ELSE list[k + 2]]

\* C20: in an upstream-derived build whose sources are ready, when the upstream
\* tag is the build tag and test is false no patch is generated and the build
\* descriptor is a copy of the exported one; otherwise one patch is generated,
\* and the build descriptor is the exported one with the PatchN line of that
\* patch and, further down, its %patchN line inserted.
C20_PatchUnlessSameTag ==
    (/\ self.variant = "UpstreamBuilder"
     /\ self.ran_tgz
     /\ exists(world.fs, rpmbuild_dir))
    => LET exported == world.fs[path_join(self.rpmbuild_gitcopy, self.spec_file_name)]
           built == world.fs[self.spec_file]
           patch_filename == self.upstream_tag \o "-to-" \o build_tag \o ".patch"
       IN  IF self.upstream_tag = build_tag /\ ~options.test
           THEN /\ GeneratedPatches = {}
                /\ RanCmd(world, "git diff") = {}
                /\ built = exported
           ELSE /\ GeneratedPatches = {patch_filename}
                /\ Len(built) = Len(exported) + 2
                /\ \E i, j \in DOMAIN built :
                      /\ i < j
                      /\ startswith(built[i], "Patch")
                      /\ endswith(built[i], ": " \o patch_filename)
                      /\ \E n \in 0..9 :
                            /\ built[i] = "Patch" \o str(n) \o ": " \o patch_filename
                            /\ built[j] = "%patch" \o str(n) \o " -p1"
                      /\ Without(built, i, j) = exported

\* An upstream-derived build from an older upstream tag, patched; the descriptor
\* had a patch already.
C20_Witness ==
    /\ self.variant = "UpstreamBuilder"
    /\ self.ran_tgz
    /\ ~options.test
    /\ self.upstream_tag = "pkg-0.9-1"
    /\ exists(world.fs, path_join(rpmbuild_sourcedir, "pkg-0.9-1-to-pkg-1.0-1.patch"))
    /\ pc = "release"

\* The files at the top of the tree that are archives: those named with one of
\* the suffixes .tar.gz, .tar, .zip, .jar, .gem.
ArchiveNames ==
    DOMAIN env.tree \cap {"pkg-1.0.tar.gz", "lib.tar", "data.zip", "app.jar", "x.gem"}

\* C21: the archive stage of a builder without an archive of its own adopts as
\* sources exactly the archives at the top of the exported tree, each listed
\* once, and creates no archive in the build directory: none is copied there
\* and none is an artifact.
C21_AdoptsArchives ==
    pc = "srpm" =>
        /\ Names(self.sources) =
              {self.rpmbuild_gitcopy \o "/" \o n : n \in ArchiveNames}
        /\ Len(self.sources) = Cardinality(ArchiveNames)
        /\ self.artifacts = <<>>
        /\ RanCmd(world, "cp ") = {}
        /\ \A q \in DOMAIN world.fs :
              (Len(q) > 3 /\ SubSeq(q, 1, 3) = "/b/" /\ q \notin DOMAIN env.fs)
                  => (Len(q) > Len(rpmbuild_dir)
                      /\ SubSeq(q, 1, Len(rpmbuild_dir)) = rpmbuild_dir)
                     \/ q = rpmbuild_dir

\* A tree with two archives and a file that only looks like one, scanned.
C21_Witness ==
    /\ pc = "srpm"
    /\ DOMAIN env.tree = {"a.spec", "pkg-1.0.tar.gz", "x.gem", "notes.tar.bz2"}
    /\ Len(self.sources) = 2

\* C22: when run() comes to its cleanup without no_cleanup, it ends with
\* neither the build directory of the run nor the checkout of the package left;
\* with no_cleanup, the cleanup removes nothing.
C22_CleanupUnlessNoCleanup ==
    [][pc = "cleanup" /\ pc' = "done" =>
          IF self.no_cleanup THEN world' = world
          ELSE /\ ~exists(world'.fs, rpmbuild_dir)
               /\ ~exists(world'.fs, cvs_package_workdir)]_vars

\* A run without no_cleanup that built packages and checked the module out, done.
C22_Witness ==
    /\ pc = "done"
    /\ ~self.no_cleanup
    /\ RanCmd(world, "LC_ALL=C rpmbuild") # {}
    /\ Checkouts # {}
    /\ ~exists(world.fs, cvs_package_workdir)

\* The files an earlier run left in the build directory of this commit.
LeftoverFiles ==
    {q \in DOMAIN env.fs : startswith(q, rpmbuild_dir \o "/") /\ env.fs[q] # Dir}

\* C23: a build directory for this commit found at construction is removed: no
\* file an earlier run left in it is there for the run.
C23_LeftoverRemoved ==
    \A q \in LeftoverFiles : ~(exists(world.fs, q) /\ world.fs[q] = env.fs[q])

\* A release is requested: the combined one, the CVS one or the Koji one.
ReleaseRequested == options.release \/ options.cvs_release \/ options.koji_release

\* The commands the release step has issued.
ReleaseCommands == {world'.trace[i].cmd : i \in Len(world.trace) + 1..Len(world'.trace)}

\* C24: in the release step of a run where a release is requested and the
\* configuration of a target is absent, that target is skipped without error
\* (no exception, no command of that target), and the other target, when it is
\* configured, is released: its commands are issued, or it stops at a
\* checkout directory that is already there.
C24_AbsentTargetSkipped ==
    [][(pc = "release" /\ ReleaseRequested
            /\ ~(_can_build_in_cvs /\ _can_build_in_koji)) =>
          /\ world'.exit # "exception"
          /\ ~_can_build_in_cvs =>
                /\ \A c \in ReleaseCommands : ~startswith(c, "mkdir -p " \o cvs_workdir)
                /\ _can_build_in_koji =>
                      ReleaseCommands # {}
          /\ ~_can_build_in_koji =>
                /\ \A c \in ReleaseCommands : ~startswith(c, "koji ")
                /\ _can_build_in_cvs =>
                      \/ \E c \in ReleaseCommands : startswith(c, "cvs -d ")
                      \/ exists(world.fs, cvs_package_workdir)]_vars

\* What a command of the trace has produced in the build directory: the archive
\* copied there, or the packages its output reports written (those of a CVS
\* make target once moved there).
ProducedBy(t) ==
    IF ~t.ran \/ t.status # 0 THEN <<>>
    ELSE IF t.cmd = "cp " \o rpmbuild_sourcedir \o "/" \o self.tgz_filename \o " "
                    \o rpmbuild_basedir \o "/"
    THEN <<rpmbuild_basedir \o "/" \o self.tgz_filename>>
    ELSE IF startswith(t.cmd, "LC_ALL=C rpmbuild ") THEN WrotePaths(t.out)
    ELSE IF startswith(t.cmd, "make ")
            /\ (endswith(t.cmd, " test-srpm") \/ endswith(t.cmd, " x86_64"))
    THEN [k \in DOMAIN WrotePaths(t.out) |->
            rpmbuild_basedir \o "/" \o basename(WrotePaths(t.out)[k])]
    ELSE <<>>

\* What the first n commands of the run have produced, in order.
RECURSIVE Produced(_)
Produced(n) ==
    IF n = 0 THEN <<>> ELSE Produced(n - 1) \o ProducedBy(world.trace[n])

\* C25: when run() is done, for every builder variant, the artifact list holds
\* the path of every archive, source package and binary package the run has
\* produced, in the order of production.
C25_ArtifactsAreProduced ==
    pc = "done" => self.artifacts = Produced(Len(world.trace))

\* The part of a version before its first "-": the whole of it when it has none.
BeforeDash(v) ==
    CHOOSE p \in {SubSeq(v, 1, k) : k \in 0..Len(v)} :
        /\ \A i \in 1..Len(p) : SubSeq(p, i, i) # "-"
        /\ p = v \/ SubSeq(v, Len(p) + 1, Len(p) + 1) = "-"

\* C26: the display version of a build that is no test build is the part of
\* the version before its first "-"; that of a test build is git-, the commit
\* count, a dot and the first seven characters of the commit, and is the
\* display version of no release of the project.
C26_DisplayVersion ==
    pc = "displayed" =>
        IF self.test
        THEN /\ ret.version = "git-" \o env.commit_count \o "."
                                 \o SubSeq(env.latest_commit, 1, 7)
             /\ \A v \in BuildVersions :
                   ret.version # _get_display_version(v, FALSE, env.latest_commit,
                                                      env.commit_count)
        ELSE ret.version = BeforeDash(ret.build_version)

\* The test build three commits after a release, displayed; a release has the
\* version and release git-3.c0ffee1.
C26_Witness ==
    /\ pc = "displayed"
    /\ self.test
    /\ ret.version = "git-3.c0ffee1"
    /\ "git-3.c0ffee1" \in BuildVersions

\* C27: for a descriptor with a %prep line and a %setup line, in whatever
\* order, the apply index is the one a %setup line gives: the index of the
\* second line after it once the directive is inserted.
C27_ApplyIndexFromSetup ==
    (/\ pc = "scanned"
     /\ world.exit = None
     /\ \E i \in DOMAIN ret.lines : ret.lines[i] = "%prep"
     /\ \E i \in DOMAIN ret.lines : ret.lines[i] = "%setup -q")
    => \E i \in DOMAIN ret.lines :
          ret.lines[i] = "%setup -q" /\ ret.patch_apply_index = i + 1

\* The positions of the two lines of the patch in the descriptor written: the
\* PatchN directive and the %patchN line.
InsertedDirectives ==
    {i \in DOMAIN ret.written :
        /\ startswith(ret.written[i], "Patch")
        /\ endswith(ret.written[i], ": pkg-0.9-1-to-pkg-1.0-1.patch")}
InsertedApplies ==
    {i \in DOMAIN ret.written :
        startswith(ret.written[i], "%patch") /\ endswith(ret.written[i], " -p1")}

\* C28: for every descriptor with a Source or Patch directive and a %prep or
\* %setup marker, the insertion adds two lines to the lines of the descriptor,
\* which keep their order: the PatchN directive right after the last directive
\* line, and the %patchN -p1 line right after a marker line.
C28_InsertedAfterAnchors ==
    (pc = "patched" /\ DirectivePositions # {} /\ MarkerPositions # {}) =>
        /\ world.exit = None
        /\ Len(ret.written) = Len(ret.lines) + 2
        /\ \E p \in InsertedDirectives, q \in InsertedApplies :
              /\ InsertedDirectives = {p} /\ InsertedApplies = {q}
              /\ Without(ret.written, IF p < q THEN p ELSE q, IF p < q THEN q ELSE p)
                    = ret.lines
              /\ \E d \in DirectivePositions :
                    /\ \A k \in DirectivePositions : k <= d
                    /\ p = d + 1 + (IF q < p THEN 1 ELSE 0)
                    /\ q # p - 1
              /\ \E m \in MarkerPositions :
                    /\ q = m + 1 + (IF p < q THEN 1 ELSE 0)
                    /\ p # q - 1

\* The step of the CVS release a command belongs to: 1 the checkout, 2 the
\* production of the sources, 3 the sync of the files, 4 the upload of the
\* sources, 5 and 6 the confirmation and the commit, 7 the tag, 8 the build;
\* 0 for a command of none of them.
CvsStep(cmd) ==
    IF startswith(cmd, "cvs -d ") THEN 1
    ELSE IF startswith(cmd, "git archive ") THEN 2
    ELSE IF startswith(cmd, "cvs add ") \/ startswith(cmd, "cvs rm ")
            \/ (startswith(cmd, "cp ") /\ instr(" " \o cvs_package_workdir \o "/", cmd))
    THEN 3
    ELSE IF startswith(cmd, "make new-sources ") THEN 4
    ELSE IF cmd = "cvs diff -u" THEN 5
    ELSE IF startswith(cmd, "cvs commit ") THEN 6
    ELSE IF cmd = "make tag" THEN 7
    ELSE IF cmd = "BUILD_FLAGS=--nowait make build" THEN 8
    ELSE 0

\* The positions in the trace of the commands the release step has added.
ReleasePositions == (Len(world.trace) + 1)..Len(world'.trace)

\* C29: the commands of a release to CVS alone come in the order of its steps: checkout,
\* (branch verification,) source production, file sync, source upload, commit
\* confirmation, commit, tag, build. With a configured branch missing nothing
\* follows the checkout; a tag is made only once the user has confirmed; a
\* build is submitted only after the tag was made in every configured branch.
C29_CvsReleaseOrder ==
    [][(/\ pc = "release"
        /\ \/ options.release /\ _can_build_in_cvs /\ ~_can_build_in_koji
           \/ ~options.release /\ options.cvs_release) =>
          /\ \A i, j \in ReleasePositions :
                (i < j /\ CvsStep(world'.trace[i].cmd) > 0
                       /\ CvsStep(world'.trace[j].cmd) > 0)
                    => CvsStep(world'.trace[i].cmd) <= CvsStep(world'.trace[j].cmd)
          /\ MissingBranch =>
                \A i \in ReleasePositions : CvsStep(world'.trace[i].cmd) <= 1
          /\ \A i \in ReleasePositions :
                CvsStep(world'.trace[i].cmd) >= 2 =>
                    \E j \in ReleasePositions : CvsStep(world'.trace[j].cmd) = 1
          /\ \A i \in ReleasePositions :
                CvsStep(world'.trace[i].cmd) >= 6 =>
                    /\ \E j \in ReleasePositions : CvsStep(world'.trace[j].cmd) = 5
                    /\ Len(world'.answers) > Len(world.answers)
                    /\ said_yes(world'.answers[Len(world.answers) + 1])
          /\ \A i \in ReleasePositions :
                (CvsStep(world'.trace[i].cmd) = 8 /\ world'.trace[i].ran) =>
                    Cardinality({j \in ReleasePositions :
                                    /\ j < i
                                    /\ CvsStep(world'.trace[j].cmd) = 7
                                    /\ world'.trace[j].ran})
                        = Len(self.cvs_branches)]_vars

\* A CVS release of two branches that went through to its builds.
C29_Witness ==
    /\ pc = "cleanup"
    /\ ~options.release /\ options.cvs_release
    /\ Len(self.cvs_branches) = 2
    /\ Cardinality(RanCmd(world, "make tag")) = 2
    /\ Cardinality(RanCmd(world, "BUILD_FLAGS=--nowait make build")) = 2
    /\ RanCmd(world, "make new-sources ") # {}

\* The files the sync has issued the add command of its version control for.
Added ==
    {n \in CanonicalNames :
        \E i \in Ran(world) :
            world.trace[i].cmd = (IF pc = "cvs_synced" THEN "cvs add " ELSE "git add ") \o n}

\* C30: a file sync issues the add command for every canonical file the
\* destination did not hold before the copy, and the sync of a CVS branch for
\* none it held.
C30_AddsNewFiles ==
    pc \in {"cvs_synced", "git_synced"} =>
        /\ \A n \in CanonicalNames \ HeldBefore : n \in Added
        /\ pc = "cvs_synced" => \A n \in HeldBefore : n \notin Added

\* C31: without DEBUG, _list_tags prints exactly the configured tags that
\* _koji_release with no only_tags filter submits the package to: those with a
\* whitelist naming the project, or with no whitelist and no blacklist naming it.
C31_ListTagsAsKojiRelease ==
    /\ pc = "released" =>
          {t \in ConfiguredTags : Submissions(t) # {}} = Eligible
    /\ (pc = "listed" /\ ~ret.debug) => Names(ret.printed) = Eligible

\* The install commands of the run.
InstallRuns == RanCmd(world, "sudo rpm -Uvh --force")

\* The deny substrings configured.
DenySubstrings ==
    IF "NO_AUTO_INSTALL" \notin DOMAIN env.user_config THEN {}
    ELSE IF env.user_config["NO_AUTO_INSTALL"] = "debuginfo other"
    THEN {"debuginfo", "other"}
    ELSE {env.user_config["NO_AUTO_INSTALL"]}

\* sub occurs in s.
Occurs(sub, s) ==
    \E i \in 1..(Len(s) - Len(sub) + 1) : SubSeq(s, i, i + Len(sub) - 1) = sub

\* The elements of the list, each after a space.
RECURSIVE Spaced(_)
Spaced(list) == IF list = <<>> THEN "" ELSE " " \o Head(list) \o Spaced(Tail(list))

\* C32: after a binary-package stage with auto-install, the install command
\* has been run once, with exactly the binary packages written whose file name
\* holds none of the deny substrings, in output order, and never with the source
\* package; it has not been run when there is no such package, nor without
\* auto-install.
C32_InstallsAllowedBinaries ==
    (pc = "release" /\ RpmRuns # {}) =>
        \A r \in RpmRuns :
            LET binaries == Tail(WrotePaths(world.trace[r].out))
                allowed == SelectSeq(binaries,
                              LAMBDA path : \A d \in DenySubstrings :
                                               ~Occurs(d, basename(path)))
            IN  IF self.auto_install /\ allowed # <<>>
                THEN /\ Cardinality(InstallRuns) = 1
                     /\ \A i \in InstallRuns :
                           world.trace[i].cmd = "sudo rpm -Uvh --force" \o Spaced(allowed)
                ELSE InstallRuns = {}

\* The commands a step has issued, in their order.
StepCommands ==
    [i \in 1..(Len(world'.trace) - Len(world.trace)) |-> world'.trace[Len(world.trace) + i].cmd]

\* The release actions a step has performed, by what each one always does: the
\* CVS checkout, the Koji source package, the git clone, the printed tag list.
ReleaseActions ==
    {k \in {"cvs", "koji", "git", "list"} :
        \/ k = "cvs" /\ \E i \in DOMAIN StepCommands : startswith(StepCommands[i], "cvs -d ")
        \/ k = "koji" /\ \E i \in DOMAIN StepCommands :
                             \/ startswith(StepCommands[i], "LC_ALL=C rpmbuild ")
                             \/ startswith(StepCommands[i], "koji ")
        \/ k = "git" /\ \E i \in DOMAIN StepCommands :
                            startswith(StepCommands[i], "pyfedpkg.clone ")
        \/ k = "list" /\ ret' # ret}

\* The runs of rpmbuild of a step all have the flag.
BuildsWith(flag) ==
    \A i \in DOMAIN StepCommands :
        startswith(StepCommands[i], "LC_ALL=C rpmbuild ") => instr(flag, StepCommands[i])

\* C33: run() goes through archive, source package, binary packages, release,
\* cleanup in this order. A stage issues commands if and only if it is selected,
\* and no stage before the release performs a release action or a cleanup. The
\* release step performs the one action of highest priority among the flags set
\* (the combined release is the CVS release then the Koji release), and nothing
\* when none is set. The cleanup step issues the two removals and nothing else,
\* and no step follows it, nor follows an exit.
C33_StageOrder ==
    [][/\ pc \in {"run", "srpm", "rpm", "release", "cleanup"}
       /\ pc = "run" =>
            /\ pc' \in {"srpm", "exit"}
            /\ (StepCommands # <<>>) = options.tgz
            /\ ReleaseActions = {}
       /\ pc = "srpm" =>
            /\ pc' \in {"rpm", "exit"}
            /\ (StepCommands # <<>>) = options.srpm
            /\ ReleaseActions \subseteq {"koji"} /\ BuildsWith(" -bs ")
       /\ pc = "rpm" =>
            /\ pc' \in {"release", "exit"}
            /\ (StepCommands # <<>>) = options.rpm
            /\ ReleaseActions \subseteq {"koji"} /\ BuildsWith(" -ba ")
       /\ pc \in {"run", "srpm", "rpm"} =>
            \A i \in DOMAIN StepCommands : ~startswith(StepCommands[i], "rm -rf " \o cvs_package_workdir)
       /\ pc = "release" =>
            /\ pc' \in {"cleanup", "exit"}
            /\ BuildsWith(" -bs ")
            /\ IF options.release
               THEN /\ "cvs" \in ReleaseActions /\ ReleaseActions \subseteq {"cvs", "koji"}
                    /\ pc' = "cleanup" => "koji" \in ReleaseActions
               ELSE IF options.cvs_release THEN ReleaseActions = {"cvs"}
               ELSE IF options.koji_release THEN ReleaseActions = {"koji"}
               ELSE IF options.git_release THEN ReleaseActions = {"git"}
               ELSE IF options.list_tags THEN ReleaseActions = {"list"}
               ELSE ReleaseActions = {} /\ StepCommands = <<>>
       /\ pc = "cleanup" =>
            /\ pc' = "done"
            /\ StepCommands = <<"rm -rf " \o rpmbuild_dir, "rm -rf " \o cvs_package_workdir>>
      ]_vars

\* A run with all three stages and several release flags has completed: its
\* release step has performed the CVS release and nothing else.
C33_Witness ==
    /\ pc = "done"
    /\ options.tgz /\ options.srpm /\ options.rpm
    /\ ~options.release /\ options.cvs_release /\ options.koji_release /\ options.git_release
    /\ \E i \in 1..Len(world.trace) : startswith(world.trace[i].cmd, "cvs commit ")
    /\ \A i \in 1..Len(world.trace) :
          ~startswith(world.trace[i].cmd, "koji ") /\ ~startswith(world.trace[i].cmd, "pyfedpkg.clone ")
    /\ world.trace[Len(world.trace)].cmd = "rm -rf " \o cvs_package_workdir

\* A step has ended in the stale-checkout failure: exit status 1 with CVS
\* configured and the checkout directory there, in a step that has made no
\* checkout, no build and no cleanup of its own.
StaleCheckoutFailure ==
    /\ world.exit = None /\ world'.exit = "1"
    /\ _can_build_in_cvs
    /\ exists(world'.fs, cvs_package_workdir)
    /\ \A i \in DOMAIN StepCommands :
          /\ ~startswith(StepCommands[i], "cvs -d ")
          /\ ~startswith(StepCommands[i], "make ")
          /\ ~startswith(StepCommands[i], "LC_ALL=C rpmbuild ")
          /\ ~startswith(StepCommands[i], "rm -rf ")

\* C34: a step of a run ends in the stale-checkout failure only when the
\* checkout directory was there before the run began.
C34_StaleOnlyBeforeRun ==
    [][StaleCheckoutFailure => exists(env.fs, cvs_package_workdir)]_vars

\* An upstream-derived build that needs patching has produced its sources.
NeedsPatching ==
    /\ self.variant = "UpstreamBuilder"
    /\ self.ran_tgz
    /\ self.upstream_tag # build_tag \/ self.test

\* The lines of the build descriptor that hold the directive of the generated
\* patch, and the lines that apply the patch of number n.
GeneratedDirectives ==
    {i \in DOMAIN world.fs[self.spec_file] :
        /\ startswith(world.fs[self.spec_file][i], "Patch")
        /\ endswith(world.fs[self.spec_file][i],
                    ": " \o self.upstream_tag \o "-to-" \o build_tag \o ".patch")}
GeneratedApplies(n) ==
    {i \in DOMAIN world.fs[self.spec_file] :
        world.fs[self.spec_file][i] = "%patch" \o str(n) \o " -p1"}

\* The times source production has generated the patch.
PatchGenerations == {i \in 1..Len(world.trace) : startswith(world.trace[i].cmd, "git diff --relative ")}

\* C35: whenever an upstream-derived build that needs patching has produced its
\* sources and goes on, its build descriptor holds exactly one PatchN directive
\* of the generated patch and exactly one %patchN apply line of the same
\* number, however many times the sources were produced.
C35_OnePatchPair ==
    (NeedsPatching /\ world.exit = None /\ exists(world.fs, self.spec_file))
    => /\ Cardinality(GeneratedDirectives) = 1
       /\ \E n \in 0..9 :
             /\ \A i \in GeneratedDirectives :
                   world.fs[self.spec_file][i]
                     = "Patch" \o str(n) \o ": " \o self.upstream_tag \o "-to-" \o build_tag \o ".patch"
             /\ Cardinality(GeneratedApplies(n)) = 1

\* The archive stage and then a release to CVS have each produced the sources of
\* an upstream-derived build from an older upstream tag, and the descriptor is
\* still there.
C35_Witness ==
    /\ pc = "cleanup"
    /\ NeedsPatching /\ self.upstream_tag # build_tag
    /\ options.tgz
    /\ Cardinality(PatchGenerations) = 2
    /\ \E i \in 1..Len(world.trace) : startswith(world.trace[i].cmd, "cvs commit ")
    /\ exists(world.fs, self.spec_file)
    /\ Cardinality(GeneratedDirectives) = 1

\* C36: the artifact list a completed run returns holds no path twice.
C36_ArtifactsDistinct ==
    pc = "done"
    => \A i, j \in DOMAIN self.artifacts : self.artifacts[i] = self.artifacts[j] => i = j


====
